---- MODULE Spec2Model ----
(***************************************************************************)
(* A model of the NYC weather / collisions ETL pipeline:                   *)
(*   - run_pipeline.py : the orchestrator (extraction, fallback,           *)
(*     transformation, load, summary / error report),                      *)
(*   - src/transform.py: the weather cleaner and its classification,       *)
(*   - src/load.py     : the dimension get-or-create and the fact loaders  *)
(*     working on a transactional store shared by several loaders.         *)
(* Each part has its own variables and its own specification; the          *)
(* variables of the other parts stay at their initial value.               *)
(***************************************************************************)
EXTENDS Integers, Sequences, FiniteSets, TLC

\* A value that is absent: Python's None / pandas NaN / NaT.
Null == "null"

(***************************************************************************)
(* PART 1 - run_pipeline.py                                                *)
(* Dates are day numbers: day 1 is 2024-01-01.                             *)
(***************************************************************************)
VARIABLES
  ppc,          \* where run_pipeline is: idle, extract, fallback, transform, load, summary, error, returned
  run,          \* number of the current run (1..MaxRuns)
  start_date,   \* run_pipeline's start_date (NoDate: not given, BadDate: unparseable)
  end_date,     \* run_pipeline's end_date
  days_range,   \* days_range, 0 before it is computed
  attempts,     \* the calls of run_extraction of this run: <<[rng |-> <<s, e>>, ok |-> BOOLEAN], ...>>
  extracted,    \* the range whose data weather_df / collisions_df hold, NoRange before
  tcalls,       \* how many times run_transformation has been called in this run
  lstarted,     \* the load phase has been entered in this run
  loadOutcome,  \* what the load phase did in this run, NoOutcome before
  success,      \* the variable success of run_pipeline: Null before the load phase, "True", "False"
  files,        \* the files that exist: [kind, name, run]; name is the timestamp in
                \* the file's name, run (history) the run that wrote the file last
  summary,      \* the content of this run's summary file, NoSummary if none
  result,       \* how run_pipeline ended: Null, "True", "False" (returned) or "raised"
  clock,        \* the wall clock, in seconds
  pipeline_id,  \* run_pipeline's pipeline_id: the second in which the run began
  csv_timestamp, \* run_transformation's timestamp (line 316), 0 outside the call
  cache,        \* what st.cache_data holds for load_latest_data, NoCache if nothing
  dash          \* the call of load_latest_data that is running: its position and locals

varsPipe == <<ppc, run, start_date, end_date, days_range, attempts, extracted,
              tcalls, lstarted, loadOutcome, success, files, summary, result,
              clock, pipeline_id, csv_timestamp, cache, dash>>

\* number of pipeline runs explored
MaxRuns == 2
\* seconds of wall clock explored
MaxClock == 2
\* the dashboard has not called load_latest_data yet
NoCache == <<>>
\* no snapshot of that kind
NoRun == 0
\* no call of load_latest_data is running
NoDash ==
  [pc |-> "idle", weather_files |-> {}, collisions_files |-> {},
   latest_weather |-> 0, latest_collisions |-> 0, weather_df |-> NoRun]

\* start_date / end_date not given (None, run_pipeline.py line 44)
NoDate == 0
\* a date string that strptime cannot parse
BadDate == NoDate - 1
NoRange == <<NoDate, NoDate>>
\* --start-date / --end-date values explored (day numbers)
StartDates == {NoDate, BadDate, 1, 5}
EndDates == {NoDate, 7, 9}
\* the day on which the pipeline runs, for the default dates
Todays == {40, 41}

\* '2024-01-01', '2024-01-07' (run_pipeline.py line 126)
FallbackStart == 1
FallbackEnd == 7
FallbackRange == <<FallbackStart, FallbackEnd>>

\* get_default_dates: end = yesterday, start = end - 29 days
DefaultLookback == 29
get_default_dates(today) == <<(today - 1) - DefaultLookback, today - 1>>

\* lines 65-72: a date that is None is replaced by the default
DateOrDefault(d, dflt) == IF d = NoDate THEN dflt ELSE d

\* lines 77-79: days_range = (end_dt - start_dt).days + 1
DaysRange(s, e) == (e - s) + 1

NoOutcome == [kind |-> Null, connected |-> FALSE, weather |-> FALSE, collisions |-> FALSE]
NoSummary == [title |-> FALSE, start |-> NoDate, end |-> NoDate, days |-> 0, load |-> Null]

InitPipe ==
  /\ ppc = "idle"
  /\ run = 1
  /\ start_date = NoDate
  /\ end_date = NoDate
  /\ days_range = 0
  /\ attempts = <<>>
  /\ extracted = NoRange
  /\ tcalls = 0
  /\ lstarted = FALSE
  /\ loadOutcome = NoOutcome
  /\ success = Null
  /\ files = {}
  /\ summary = NoSummary
  /\ result = Null
  /\ clock = 1
  /\ pipeline_id = 0
  /\ csv_timestamp = 0
  /\ cache = NoCache
  /\ dash = NoDash

\* a second of wall clock passes
Tick ==
  /\ clock < MaxClock
  /\ clock' = clock + 1
  /\ UNCHANGED <<ppc, run, start_date, end_date, days_range, attempts, extracted,
                 tcalls, lstarted, loadOutcome, success, files, summary, result,
                 pipeline_id, csv_timestamp, cache, dash>>

\* open(path, 'w') and to_csv(path): a file of the same name is replaced
WriteFiles(fs, new) ==
  {f \in fs : ~ \E g \in new : g.kind = f.kind /\ g.name = f.name} \cup new

\* run_pipeline lines 53-80: defaults, strptime of both dates, days_range.
\* strptime raises on a date it cannot parse: the outer except takes over.
StartRun(sd, ed, today) ==
  /\ ppc = "idle"
  /\ pipeline_id' = clock
  /\ LET dflt == get_default_dates(today)
         s == DateOrDefault(sd, dflt[1])
         e == DateOrDefault(ed, dflt[2])
     IN /\ start_date' = s
        /\ end_date' = e
        /\ IF s = BadDate \/ e = BadDate
             THEN /\ days_range' = 0
                  /\ ppc' = "error"
             ELSE /\ days_range' = DaysRange(s, e)
                  /\ ppc' = "extract"
  /\ UNCHANGED <<run, attempts, extracted, tcalls, lstarted, loadOutcome, success, files,
                 summary, result, clock, csv_timestamp, cache, dash>>

\* lines 82-113: the first call of run_extraction, which returns or raises.
Extract(ok) ==
  /\ ppc = "extract"
  /\ attempts' = Append(attempts, [rng |-> <<start_date, end_date>>, ok |-> ok])
  /\ IF ok
       THEN /\ extracted' = <<start_date, end_date>>
            /\ ppc' = "transform"
       ELSE /\ extracted' = extracted
            /\ ppc' = "fallback"
  /\ UNCHANGED <<run, start_date, end_date, days_range, tcalls, lstarted, loadOutcome,
                 success, files, summary, result, clock, pipeline_id,
                 csv_timestamp, cache, dash>>

\* lines 114-133: the except branch calls run_extraction with the fixed range;
\* when that raises too the exception is re-raised to the outer except.
FallbackPpc(ok) == IF ok THEN "transform" ELSE "error"

Fallback(ok) ==
  /\ ppc = "fallback"
  /\ attempts' = Append(attempts, [rng |-> FallbackRange, ok |-> ok])
  /\ extracted' = IF ok THEN FallbackRange ELSE extracted
  /\ ppc' = FallbackPpc(ok)
  /\ UNCHANGED <<run, start_date, end_date, days_range, tcalls, lstarted, loadOutcome,
                 success, files, summary, result, clock, pipeline_id,
                 csv_timestamp, cache, dash>>

\* transform.py lines 308-328, run_transformation: both cleaners, then the
\* weather snapshot, then the collisions snapshot. stage says how far it got
\* before raising: "clean" (a cleaner raised), "weather_csv" (the weather
\* snapshot is written, writing the collisions snapshot raised), "done".
TransformStages == {"clean", "weather_csv", "done"}

\* a run_transformation that returns without writing the collisions snapshot
SnapshotsWritten_weatherOnly(stage, r, timestamp) ==
  IF stage = "clean" THEN {} ELSE {[kind |-> "weather", name |-> timestamp, run |-> r]}

\* lines 316-322: both snapshots are named with the second of line 316
SnapshotsWritten(stage, r, timestamp) ==
  CASE stage = "clean" -> {}
    [] stage = "weather_csv" -> {[kind |-> "weather", name |-> timestamp, run |-> r]}
    [] stage = "done" -> {[kind |-> "weather", name |-> timestamp, run |-> r],
                          [kind |-> "collisions", name |-> timestamp, run |-> r]}

\* run_pipeline lines 139-165: run_transformation returns or raises (re-raised).
TransformPpc(stage) == IF stage = "done" THEN "load" ELSE "error"

\* run_pipeline line 141 and transform.py lines 313-321: run_transformation is
\* called; the cleaners run, the timestamp is taken and the weather snapshot
\* is written (stage "weather_csv"), or a cleaner raises (stage "clean")
Transform(stage) ==
  /\ ppc = "transform"
  /\ stage \in {"clean", "weather_csv"}
  /\ tcalls' = tcalls + 1
  /\ csv_timestamp' = IF stage = "clean" THEN csv_timestamp ELSE clock
  /\ files' = WriteFiles(files, SnapshotsWritten(stage, run, clock))
  /\ ppc' = IF stage = "clean" THEN TransformPpc(stage) ELSE "collisions_csv"
  /\ UNCHANGED <<run, start_date, end_date, days_range, attempts, extracted,
                 lstarted, loadOutcome, success, summary, result, clock, pipeline_id,
                 cache, dash>>

\* transform.py lines 322-328: the collisions snapshot is written and
\* run_transformation returns (stage "done"), or to_csv raises (stage
\* "weather_csv": the weather snapshot stays)
CollisionsCsv(stage) ==
  /\ ppc = "collisions_csv"
  /\ stage \in {"weather_csv", "done"}
  /\ files' = WriteFiles(files, {f \in SnapshotsWritten(stage, run, csv_timestamp) :
                                   f.kind = "collisions"})
  /\ ppc' = TransformPpc(stage)
  /\ UNCHANGED <<run, start_date, end_date, days_range, attempts, extracted, tcalls,
                 lstarted, loadOutcome, success, summary, result, clock, pipeline_id,
                 csv_timestamp, cache, dash>>

\* load.py lines 433-460, run_exact_schema_loading: False only when the test
\* connection fails; otherwise True, whatever the two load calls returned.
run_exact_schema_loading(connected, weather_success, collisions_success) ==
  IF ~connected THEN FALSE
  ELSE IF weather_success /\ collisions_success THEN TRUE
  ELSE TRUE

\* What the load phase can do: run_loading returns, raises, or cannot be imported.
\* "returned": connected says whether the test connection succeeded, weather and
\* collisions what the two load calls returned (they run only when connected).
LoadOutcomes ==
  {[kind |-> "returned", connected |-> TRUE, weather |-> w, collisions |-> k] :
      w \in BOOLEAN, k \in BOOLEAN}
  \cup {[kind |-> x, connected |-> FALSE, weather |-> FALSE, collisions |-> FALSE] :
      x \in {"returned", "import_error", "exception"}}

\* run_pipeline lines 171-189: the value of success after the load phase.
LoadSuccess(o) ==
  CASE o.kind = "returned" ->
         run_exact_schema_loading(o.connected, o.weather, o.collisions)
    [] o.kind = "import_error" -> TRUE
    [] o.kind = "exception" -> FALSE

\* run_pipeline lines 171-189: every outcome of the load phase is caught.
LoadPpc(o) == "summary"

Load(o) ==
  /\ ppc = "load"
  /\ lstarted' = TRUE
  /\ loadOutcome' = o
  /\ success' = IF LoadSuccess(o) THEN "True" ELSE "False"
  /\ ppc' = LoadPpc(o)
  /\ UNCHANGED <<run, start_date, end_date, days_range, attempts, extracted,
                 tcalls, files, summary, result, clock, pipeline_id,
                 csv_timestamp, cache, dash>>

\* lines 196-209, 220-223: the title line of the summary file and its
\* "Date Range" and "Database Load" entries.
SummaryStats ==
  [title |-> TRUE, start |-> start_date, end |-> end_date, days |-> days_range,
   load |-> IF success = "True" THEN "Success" ELSE "Partial/Failed"]

\* What writing the summary file can do (lines 219-246):
\*   "written"     every write succeeds;
\*   "not_opened"  open raises (line 219): no file;
\*   "empty"       the file is created and holds nothing: the first write
\*                 raises, or what was written is lost when the file is closed;
\*   "no_range"    a write raises before the 'Date Range' entry is in the
\*                 file, e.g. the encoding of that entry (line 223);
\*   "truncated"   a write raises after the 'Date Range' entry and before the
\*                 'Database Load' entry is in the file, e.g. the encoding of
\*                 that entry (line 223);
\*   "no_metrics"  a write of the data quality section raises (lines 226-246).
SummaryOutcomes ==
  {"written", "not_opened", "empty", "no_range", "truncated", "no_metrics"}

\* lines 191-250: the summary file is written and run_pipeline returns True;
\* an exception of open or write reaches the outer except (line 252).
Summary(outcome) ==
  /\ ppc = "summary"
  /\ summary' = CASE outcome \in {"written", "no_metrics"} -> SummaryStats
                  [] outcome = "truncated" -> [SummaryStats EXCEPT !.load = Null]
                  [] outcome = "no_range" -> [NoSummary EXCEPT !.title = TRUE]
                  [] outcome = "empty" -> NoSummary
                  [] outcome = "not_opened" -> summary
  /\ files' = IF outcome = "not_opened" THEN files
              ELSE WriteFiles(files, {[kind |-> "summary", name |-> pipeline_id, run |-> run]})
  /\ result' = IF outcome = "written" THEN "True" ELSE result
  /\ ppc' = IF outcome = "written" THEN "returned" ELSE "error"
  /\ UNCHANGED <<run, start_date, end_date, days_range, attempts, extracted,
                 tcalls, lstarted, loadOutcome, success, clock, pipeline_id,
                 csv_timestamp, cache, dash>>

\* What writing the error report can do: "written"; "not_opened", open raises
\* (line 259); "truncated", a write raises (lines 260-266).
ErrorOutcomes == {"written", "not_opened", "truncated"}

\* lines 252-270: the outer except writes the error report and returns False;
\* an exception of its open or write is caught by nothing and leaves
\* run_pipeline.
ErrorReport(outcome) ==
  /\ ppc = "error"
  /\ files' = IF outcome = "not_opened" THEN files
              ELSE WriteFiles(files, {[kind |-> "error", name |-> pipeline_id, run |-> run]})
  /\ result' = IF outcome = "written" THEN "False" ELSE "raised"
  /\ ppc' = "returned"
  /\ UNCHANGED <<run, start_date, end_date, days_range, attempts, extracted,
                 tcalls, lstarted, loadOutcome, success, summary, clock, pipeline_id,
                 csv_timestamp, cache, dash>>

\* The next invocation of run_pipeline (main, lines 273-360): a new run with
\* fresh locals; the files of earlier runs stay.
NextRun ==
  /\ ppc = "returned"
  /\ run < MaxRuns
  /\ run' = run + 1
  /\ ppc' = "idle"
  /\ start_date' = NoDate
  /\ end_date' = NoDate
  /\ days_range' = 0
  /\ attempts' = <<>>
  /\ extracted' = NoRange
  /\ tcalls' = 0
  /\ lstarted' = FALSE
  /\ loadOutcome' = NoOutcome
  /\ success' = Null
  /\ summary' = NoSummary
  /\ result' = Null
  /\ pipeline_id' = 0
  /\ csv_timestamp' = 0
  /\ UNCHANGED <<files, clock, cache, dash>>

\* glob.glob (lines 29, 30): the names of the snapshots of a kind that exist
SnapshotNames(kind) == {f.name : f \in {g \in files : g.kind = kind}}
\* the run that wrote the snapshot of that kind and name
SnapshotRun(kind, name) ==
  (CHOOSE f \in files : f.kind = kind /\ f.name = name).run
\* max(names, key=os.path.getctime) (lines 37, 38): runs follow one another,
\* so the file written last is the one of the highest run
LatestSnapshot(kind, names) ==
  CHOOSE n \in names : \A q \in names : SnapshotRun(kind, q) <= SnapshotRun(kind, n)

UnchangedPipeline ==
  UNCHANGED <<ppc, run, start_date, end_date, days_range, attempts, extracted,
              tcalls, lstarted, loadOutcome, success, files, summary, result,
              clock, pipeline_id, csv_timestamp>>

\* dashboard/app.py lines 24, 59 and 29: a run of the dashboard script calls
\* load_latest_data; st.cache_data runs the body on the first call of the
\* dashboard process and returns that result on every later call. The body
\* begins with the glob of the weather snapshots.
GlobWeather ==
  /\ cache = NoCache
  /\ dash.pc = "idle"
  /\ dash' = [dash EXCEPT !.pc = "glob_collisions",
                          !.weather_files = SnapshotNames("weather")]
  /\ UNCHANGED cache
  /\ UnchangedPipeline

\* lines 30-34: the glob of the collisions snapshots; (None, None) is
\* returned, and memoised, when one of the two lists is empty
GlobCollisions ==
  /\ dash.pc = "glob_collisions"
  /\ IF dash.weather_files = {} \/ SnapshotNames("collisions") = {}
       THEN /\ cache' = <<NoRun, NoRun>>
            /\ dash' = NoDash
       ELSE /\ dash' = [dash EXCEPT !.pc = "latest_weather",
                                    !.collisions_files = SnapshotNames("collisions")]
            /\ UNCHANGED cache
  /\ UnchangedPipeline

\* line 37
LatestWeather ==
  /\ dash.pc = "latest_weather"
  /\ dash' = [dash EXCEPT !.pc = "latest_collisions",
                          !.latest_weather = LatestSnapshot("weather", dash.weather_files)]
  /\ UNCHANGED cache
  /\ UnchangedPipeline

\* line 38
LatestCollisions ==
  /\ dash.pc = "latest_collisions"
  /\ dash' = [dash EXCEPT !.pc = "read_weather",
                          !.latest_collisions =
                             LatestSnapshot("collisions", dash.collisions_files)]
  /\ UNCHANGED cache
  /\ UnchangedPipeline

\* line 41: the weather snapshot is read; its rows are those of the run that
\* wrote the file last
ReadWeather ==
  /\ dash.pc = "read_weather"
  /\ dash' = [dash EXCEPT !.pc = "read_collisions",
                          !.weather_df = SnapshotRun("weather", dash.latest_weather)]
  /\ UNCHANGED cache
  /\ UnchangedPipeline

\* lines 42-56: the collisions snapshot is read and both tables are returned,
\* and memoised
ReadCollisions ==
  /\ dash.pc = "read_collisions"
  /\ cache' = <<dash.weather_df, SnapshotRun("collisions", dash.latest_collisions)>>
  /\ dash' = NoDash
  /\ UnchangedPipeline

\* the dashboard process is started anew: nothing is memoised
RestartDashboard ==
  /\ cache # NoCache
  /\ cache' = NoCache
  /\ UNCHANGED dash
  /\ UnchangedPipeline

(***************************************************************************)
(* PART 2 - src/transform.py, WeatherTransformer                           *)
(* A cell of a raw table is a number, NaN (null or not numeric) or Absent  *)
(* (the table has no such column). Rain, showers, precipitation and        *)
(* snowfall are whole units; wind speed is in thousandths of a unit, so    *)
(* that rounding to 2 decimals is visible; visibility is in metres.        *)
(***************************************************************************)
VARIABLES
  wxpc,      \* "off" (part not running), "raw" (a raw row is given), "clean" (transform has run)
  wxRaw,     \* the raw weather row
  wxClean    \* the row of the cleaned table

varsWx == <<wxpc, wxRaw, wxClean>>

Num(v) == [t |-> "num", v |-> v]
NaN == [t |-> "nan", v |-> 0]
Absent == [t |-> "absent", v |-> 0]

\* thousandths per unit (wind speed)
Milli == 10 * 10 * 10

\* the raw values explored
SnowfallInputs == {Absent, NaN, Num(0), Num(1), Num(6)}
RainInputs == {NaN, Num(0), Num(2), Num(0 - 1)}
ShowersInputs == {Absent, Num(0), Num(1)}
PrecipitationInputs == {Num(0), Num(1), Num(6), Num(12)}
VisibilityInputs == {Absent, NaN, Num(0), Num(900), Num(2949), Num(2950), Num(4949),
                     Num(4950), Num(4951), Num(5000), Num(31000)}
WindInputs == {Absent, Num(0), Num(7421), Num(30 * Milli), Num(30 * Milli + 4),
               Num(30 * Milli + 6), Num(55 * Milli)}

RawWeatherRows ==
  [snowfall : SnowfallInputs, rain : RainInputs, showers : ShowersInputs,
   precipitation : PrecipitationInputs, visibility : VisibilityInputs,
   wind_speed_10m : WindInputs]

NoWeatherRow ==
  [snowfall |-> Absent, rain |-> Absent, showers |-> Absent, precipitation |-> Absent,
   visibility |-> Absent, wind_speed_10m |-> Absent, weather_category |-> Null,
   weather_severity |-> Null]

\* numpy's round: to the nearest multiple of unit, a tie going to the even multiple
RoundHalfEven(x, unit) ==
  LET q == x \div unit
      r == x % unit
  IN IF 2 * r < unit THEN q * unit
     ELSE IF 2 * r > unit THEN (q + 1) * unit
     ELSE IF q % 2 = 0 THEN q * unit ELSE (q + 1) * unit

\* line 57: pd.to_numeric(errors='coerce').fillna(0), for a column the table has
ToNumericFill0(c) == IF c.t = "nan" THEN Num(0) ELSE c

\* lines 62-63: round(2) of a value in thousandths
Round2(c) == IF c.t = "num" THEN Num(RoundHalfEven(c.v, 10)) ELSE c

\* lines 65-66: (visibility / 100).round() * 100
BucketVisibility(c) == IF c.t = "num" THEN Num(RoundHalfEven(c.v, 100)) ELSE c

\* row.get(col, default)
Get(c, default) == IF c.t = "absent" THEN default ELSE c.v

\* the default of row.get('visibility', 10000), lines 124, 148, 150
DefaultVisibility == 10000
\* thresholds of _categorize_weather, lines 124 and 127
FogVisibility == 5000
WindThreshold == 30

\* a classification that tests rain before snow
_categorize_weather_rainFirst(row) ==
  LET rain_total == Get(row.rain, 0) + Get(row.showers, 0) + Get(row.precipitation, 0)
  IN IF rain_total > 0 THEN "RAIN"
     ELSE IF Get(row.snowfall, 0) > 0 THEN "SNOW"
     ELSE IF Get(row.visibility, DefaultVisibility) < FogVisibility THEN "FOG"
     ELSE IF Get(row.wind_speed_10m, 0) > WindThreshold * Milli THEN "WIND"
     ELSE "CLEAR"

\* lines 110-130
_categorize_weather(row) ==
  IF Get(row.snowfall, 0) > 0 THEN "SNOW"
  ELSE LET rain_total == Get(row.rain, 0) + Get(row.showers, 0)
                         + Get(row.precipitation, 0)
       IN IF rain_total > 0 THEN "RAIN"
          ELSE IF Get(row.visibility, DefaultVisibility) < FogVisibility THEN "FOG"
          ELSE IF Get(row.wind_speed_10m, 0) > WindThreshold * Milli THEN "WIND"
          ELSE "CLEAR"

\* thresholds of _assess_severity, lines 134, 143, 145, 148, 150, 153, 155
HeavySnowfall == 5
HeavyRain == 10
ModerateRain == 5
SevereVisibility == 1000
ModerateVisibility == 3000
SevereWind == 50
ModerateWind == 30

\* an assessment that tests the wind before the visibility
_assess_severity_windFirst(row) ==
  IF Get(row.snowfall, 0) > HeavySnowfall THEN "HEAVY"
  ELSE LET rain_total == Get(row.rain, 0) + Get(row.showers, 0)
                         + Get(row.precipitation, 0)
       IN IF rain_total > HeavyRain THEN "HEAVY"
          ELSE IF rain_total > ModerateRain THEN "MODERATE"
          ELSE IF Get(row.wind_speed_10m, 0) > SevereWind * Milli THEN "SEVERE"
          ELSE IF Get(row.wind_speed_10m, 0) > ModerateWind * Milli THEN "MODERATE"
          ELSE IF Get(row.visibility, DefaultVisibility) < SevereVisibility THEN "SEVERE"
          ELSE IF Get(row.visibility, DefaultVisibility) < ModerateVisibility THEN "MODERATE"
          ELSE "LIGHT"

\* lines 132-158
_assess_severity(row) ==
  IF Get(row.snowfall, 0) > HeavySnowfall THEN "HEAVY"
  ELSE LET rain_total == Get(row.rain, 0) + Get(row.showers, 0)
                         + Get(row.precipitation, 0)
       IN IF rain_total > HeavyRain THEN "HEAVY"
          ELSE IF rain_total > ModerateRain THEN "MODERATE"
          ELSE IF Get(row.visibility, DefaultVisibility) < SevereVisibility THEN "SEVERE"
          ELSE IF Get(row.visibility, DefaultVisibility) < ModerateVisibility THEN "MODERATE"
          ELSE IF Get(row.wind_speed_10m, 0) > SevereWind * Milli THEN "SEVERE"
          ELSE IF Get(row.wind_speed_10m, 0) > ModerateWind * Milli THEN "MODERATE"
          ELSE "LIGHT"

\* lines 47-66: the numeric cleanup of one row
NumericCleanup(raw) ==
  [snowfall |-> ToNumericFill0(raw.snowfall),
   rain |-> ToNumericFill0(raw.rain),
   showers |-> ToNumericFill0(raw.showers),
   precipitation |-> ToNumericFill0(raw.precipitation),
   visibility |-> BucketVisibility(ToNumericFill0(raw.visibility)),
   wind_speed_10m |-> Round2(ToNumericFill0(raw.wind_speed_10m))]

\* lines 47-66 and 83-84 of WeatherTransformer.transform: the measures of one
\* row, its category and its severity
WeatherTransform(raw) ==
  LET row == NumericCleanup(raw)
  IN [snowfall |-> row.snowfall, rain |-> row.rain, showers |-> row.showers,
      precipitation |-> row.precipitation, visibility |-> row.visibility,
      wind_speed_10m |-> row.wind_speed_10m,
      weather_category |-> _categorize_weather(row),
      weather_severity |-> _assess_severity(row)]

IdleWx ==
  /\ wxpc = "off"
  /\ wxRaw = NoWeatherRow
  /\ wxClean = NoWeatherRow

InitWx ==
  /\ wxpc = "raw"
  /\ \E raw \in RawWeatherRows : wxRaw = raw
  /\ wxClean = NoWeatherRow

TransformWeather ==
  /\ wxpc = "raw"
  /\ wxClean' = WeatherTransform(wxRaw)
  /\ wxpc' = "clean"
  /\ UNCHANGED wxRaw


(***************************************************************************)
(* PART 2b - WeatherTransformer.transform on a table                       *)
(* A table is a sequence of rows. A raw row has a datetime, a borough and  *)
(* its measures (m, a row of PART 2). An hour count is relative to         *)
(* 2024-01-01 00:00, a Monday. A datetime is a naive string (read as UTC), *)
(* a text that is no date, null, a timestamp with its UTC offset, or NaT.  *)
(***************************************************************************)
VARIABLES
  wtpc,      \* "off", "raw" (a raw table is given), "clean", "again"
  wtRaw,     \* the raw table
  wtClean,   \* transform(wtRaw)
  wtAgain    \* transform(wtClean)

varsWxT == <<wtpc, wtRaw, wtClean, wtAgain>>

\* rows of a raw weather table
MaxWxRows == 2

Str(h) == [t |-> "str", h |-> h, offset |-> 0]
BadStr == [t |-> "bad", h |-> 0, offset |-> 0]
NullDatetime == [t |-> "null", h |-> 0, offset |-> 0]
Ts(h, offset) == [t |-> "ts", h |-> h, offset |-> offset]
NaTValue == [t |-> "nat", h |-> 0, offset |-> 0]

\* America/New_York in winter: UTC-5
NYOffset == 0 - 5

\* a conversion to UTC that reads the wall-clock time of a timestamp as UTC
ToDatetimeUtc_naive(x) ==
  IF x.t \in {"str", "ts"} THEN Ts(x.h, 0) ELSE NaTValue

\* line 41: pd.to_datetime(utc=True, errors='coerce')
ToDatetimeUtc(x) ==
  IF x.t \in {"str", "ts"} THEN Ts(x.h - x.offset, 0) ELSE NaTValue

\* a conversion that leaves the timestamp at its UTC wall-clock time
TzConvertNY_utc(x) ==
  IF x.t = "ts" THEN Ts(x.h - x.offset, 0) ELSE x

\* line 42: dt.tz_convert('America/New_York')
TzConvertNY(x) ==
  IF x.t = "ts" THEN Ts(x.h - x.offset + NYOffset, NYOffset) ELSE x

\* the raw values explored: 2024-01-01 03:00, 05:00 and 12:00, 2024-03-03 12:00
WxDatetimeInputs == {Str(3), Str(5), Str(12), Str(1500), BadStr, NullDatetime}
WxBoroughInputs == {"BRONX", " bronx", Null}
\* the measures of a calm clear hour: visibility 31000, wind 7.4
CalmMeasures ==
  [snowfall |-> Num(0), rain |-> Num(0), showers |-> Num(0), precipitation |-> Num(0),
   visibility |-> Num(31000), wind_speed_10m |-> Num(7400)]
WxMeasureInputs ==
  {[snowfall |-> Num(0), rain |-> NaN, showers |-> Absent, precipitation |-> Num(0),
    visibility |-> Num(2950), wind_speed_10m |-> Num(30 * Milli + 6)],
   [snowfall |-> Absent, rain |-> Num(2), showers |-> Num(1), precipitation |-> Num(6),
    visibility |-> Absent, wind_speed_10m |-> Num(7421)],
   CalmMeasures,
   [snowfall |-> Num(6), rain |-> NaN, showers |-> Num(1), precipitation |-> Num(12),
    visibility |-> Num(900), wind_speed_10m |-> Num(55 * Milli)]}
RawWeatherTableRows ==
  [datetime : WxDatetimeInputs, borough : WxBoroughInputs, m : WxMeasureInputs]

RECURSIVE TablesOver(_, _)
\* the tables of 1 to n rows of the set rows
TablesOver(rows, n) ==
  IF n = 0 THEN {}
  ELSE {<<r>> : r \in rows}
       \cup {Append(t, r) : t \in TablesOver(rows, n - 1), r \in rows}

\* lines 71-75: the features of the hour; dt.hour of NaT is NaN, and every
\* comparison with NaN is False
NaNHour == 0 - 1
NaNMonth == 0 - 1
HourNyc(d) == IF d.t = "ts" THEN d.h % 24 ELSE NaNHour
DayOfWeek(d) == (d.h \div 24) % 7
DayNames == <<"Monday", "Tuesday", "Wednesday", "Thursday", "Friday", "Saturday", "Sunday">>
DayName(d) == IF d.t = "ts" THEN DayNames[DayOfWeek(d) + 1] ELSE Null
IsWeekend(d) == d.t = "ts" /\ DayOfWeek(d) >= 5
IsRushHourWx(d) == d.t = "ts" /\ (d.h % 24) \in {7, 8, 9, 16, 17, 18, 19}
IsNightWx(d) == d.t = "ts" /\ ((d.h % 24) >= 20 \/ (d.h % 24) < 6)

\* line 77: dt.month, for the days of 2024 and of December 2023
DaysBefore == <<0, 31, 60, 91, 121, 152, 182, 213, 244, 274, 305, 335, 366>>
MonthOf(d) ==
  IF d.t # "ts" THEN NaNMonth
  ELSE IF d.h < 0 THEN 12
  ELSE CHOOSE mo \in 1..12 :
         DaysBefore[mo] <= d.h \div 24 /\ d.h \div 24 < DaysBefore[mo + 1]

\* lines 100-108
_get_season(month) ==
  IF month \in {12, 1, 2} THEN "WINTER"
  ELSE IF month \in {3, 4, 5} THEN "SPRING"
  ELSE IF month \in {6, 7, 8} THEN "SUMMER"
  ELSE "FALL"

\* str.upper() and str.strip(), on the texts explored
StrUpper(b) ==
  CASE b = " bronx" -> " BRONX"
    [] b = "bronx" -> "BRONX"
    [] b = "newark" -> "NEWARK"
    [] OTHER -> b
StrStrip(b) ==
  CASE b = " BRONX" -> "BRONX"
    [] b = " bronx" -> "bronx"
    [] b = " " -> ""
    [] OTHER -> b

\* line 90: str.upper().str.strip(); a null stays null
BoroughCleanupWx(b) == IF b = Null THEN b ELSE StrStrip(StrUpper(b))

\* lines 41-90: what transform makes of one row
WeatherTransformRow(row) ==
  LET d == TzConvertNY(ToDatetimeUtc(row.datetime))
  IN [datetime |-> d, borough |-> BoroughCleanupWx(row.borough),
      m |-> WeatherTransform(row.m),
      hour_nyc |-> HourNyc(d), day_of_week |-> DayName(d),
      is_weekend |-> IsWeekend(d), is_rush_hour |-> IsRushHourWx(d),
      is_night |-> IsNightWx(d), month |-> MonthOf(d),
      season |-> _get_season(MonthOf(d))]

\* what drop_duplicates compares: the instant of a timestamp; NaT equals NaT
DatetimeKey(d) == IF d.t = "ts" THEN [t |-> "ts", instant |-> d.h - d.offset]
                  ELSE [t |-> "nat", instant |-> 0]

\* the duplicates that drop_duplicates drops: every row after the first of
\* its (borough, datetime)
IsDuplicateWx(rows, i) ==
  \E j \in 1..(i - 1) :
    /\ rows[j].borough = rows[i].borough
    /\ DatetimeKey(rows[j].datetime) = DatetimeKey(rows[i].datetime)

RECURSIVE KeepFirstWx(_, _)
\* line 95: the first i rows without their duplicates
KeepFirstWx(rows, i) ==
  IF i = 0 THEN <<>>
  ELSE IF IsDuplicateWx(rows, i) THEN KeepFirstWx(rows, i - 1)
  ELSE Append(KeepFirstWx(rows, i - 1), rows[i])

\* lines 23-98: WeatherTransformer.transform
WeatherTransformer_transform(table) ==
  LET rows == [i \in 1..Len(table) |-> WeatherTransformRow(table[i])]
  IN KeepFirstWx(rows, Len(rows))

IdleWxT ==
  /\ wtpc = "off"
  /\ wtRaw = <<>> /\ wtClean = <<>> /\ wtAgain = <<>>

\* the rows of a DataFrame have the same columns
WxMeasureCols ==
  {"snowfall", "rain", "showers", "precipitation", "visibility", "wind_speed_10m"}
SameColumns(m1, m2) ==
  \A col \in WxMeasureCols : (m1[col] = Absent) <=> (m2[col] = Absent)
\* the raw rows that have the columns of the measures m
RowsWithColumnsOf(m) == {r \in RawWeatherTableRows : SameColumns(r.m, m)}

InitWxT ==
  /\ wtpc = "raw"
  /\ \E m \in WxMeasureInputs : wtRaw \in TablesOver(RowsWithColumnsOf(m), MaxWxRows)
  /\ wtClean = <<>> /\ wtAgain = <<>>

\* transform is given the raw table
TransformWeatherTable ==
  /\ wtpc = "raw"
  /\ wtClean' = WeatherTransformer_transform(wtRaw)
  /\ wtpc' = "clean"
  /\ UNCHANGED <<wtRaw, wtAgain>>

\* transform is given its own output
TransformWeatherAgain ==
  /\ wtpc = "clean"
  /\ wtAgain' = WeatherTransformer_transform(wtClean)
  /\ wtpc' = "again"
  /\ UNCHANGED <<wtRaw, wtClean>>

(***************************************************************************)
(* PART 2c - src/transform.py, CollisionsTransformer                       *)
(* A raw row (after the renaming of lines 186-207) has a collision_id, a   *)
(* crash_date, a crash_time, a borough and its 8 counts. A raw count is a  *)
(* cell of PART 2 in tenths (Num(27) is 2.7); a cleaned count is a whole   *)
(* number. NoColumn is the borough of a table without a borough column.    *)
(***************************************************************************)
VARIABLES
  colpc,     \* "off", "raw" (a raw table is given), "clean"
  colRaw,    \* the raw table
  colClean   \* transform(colRaw)

varsCol == <<colpc, colRaw, colClean>>

\* rows of a raw collisions table with more than one row
MaxColRows == 2

NoColumn == "<no column>"
InjuryCols ==
  {"persons_injured", "persons_killed", "pedestrians_injured", "pedestrians_killed",
   "cyclists_injured", "cyclists_killed", "motorists_injured", "motorists_killed"}

\* the raw values explored. A crash_date is a day of 2024 (0 is 2024-01-01)
\* written as '2024-01-01T00:00:00.000', a text that is no date, or null.
DateStr(day) == [t |-> "str", day |-> day]
NotADate == [t |-> "bad", day |-> 0]
NullDate == [t |-> "null", day |-> 0]
CrashDateInputs == {DateStr(0), DateStr(1), NotADate, NullDate}
CrashTimeInputs == {"7:00", "11:00", " 07:00", "7 o'clock", NoColumn}
ColBoroughInputs == {"", Null, "bronx", "MANHATTAN", "newark", NoColumn}
CollisionIdInputs == {Null, "4501", "4502"}
InjuredInputs == {Absent, NaN, Num(0 - 10), Num(0), Num(10), Num(27), Num(30)}
KilledInputs == {Num(0), Num(10), Num(0 - 10)}
PedestriansInputs == {Absent, Num(0), Num(10)}
\* the five other counts have the same raw value
OtherCountInputs == {Absent, Num(0 - 10), Num(10)}

RawCollisionRow(id, date, time, borough, injured, killed, pedestrians, other) ==
  [collision_id |-> id, crash_date |-> date, crash_time |-> time, borough |-> borough,
   persons_injured |-> injured, persons_killed |-> killed,
   pedestrians_injured |-> pedestrians, pedestrians_killed |-> other,
   cyclists_injured |-> other, cyclists_killed |-> other,
   motorists_injured |-> other, motorists_killed |-> other]

\* the rows of the one-row tables: every combination of a date and a time
\* with two boroughs, and every combination of a borough and the counts
\* with one date and time
RawCollisionRows ==
  {RawCollisionRow(id, date, time, borough, Num(10), Num(0), Absent, Absent) :
     id \in CollisionIdInputs, date \in CrashDateInputs, time \in CrashTimeInputs,
     borough \in {"", "MANHATTAN"}}
  \cup
  {RawCollisionRow("4501", DateStr(0), "7:00", borough, injured, killed, pedestrians, other) :
     borough \in ColBoroughInputs, injured \in InjuredInputs, killed \in KilledInputs,
     pedestrians \in PedestriansInputs, other \in OtherCountInputs}

\* the rows of the tables of several rows
RawCollisionTableRows ==
  {RawCollisionRow(id, date, "11:00", borough, Num(10), Num(0), Num(0), Num(0)) :
     id \in CollisionIdInputs, date \in {DateStr(0), DateStr(1), NullDate},
     borough \in {Null, "bronx", "newark"}}

\* line 278: str(crash_date).split('T')[0]: the date of the string, or a text
\* that is no date ('None', 'nan')
DatePart(date) == IF date.t = "str" THEN date ELSE NotADate

\* lines 279-282: strip, then a 0 before a one-digit hour; the default of a
\* table without crash_time is '00:00'
PadTime(time) ==
  CASE time = NoColumn -> "00:00"
    [] time \in {"7:00", " 07:00"} -> "07:00"
    [] OTHER -> time

\* the hour of a text 'HH:MM'; NaNHour when the text is no such time
HourOfTime(time) ==
  CASE time = "00:00" -> 0
    [] time = "07:00" -> 7
    [] time = "11:00" -> 11
    [] OTHER -> NaNHour

\* line 284: pd.to_datetime(f"{date_str} {time_str}", errors='coerce')
ParseCrash(date, time) ==
  IF date.t = "str" /\ HourOfTime(time) # NaNHour
    THEN Ts(date.day * 24 + HourOfTime(time), 0)
    ELSE NaTValue

\* lines 272-289, for one row
_parse_crash_datetime(row) == ParseCrash(DatePart(row.crash_date), PadTime(row.crash_time))

\* src/config.py 36-42 and line 219
ValidBoroughs == {"MANHATTAN", "BROOKLYN", "QUEENS", "BRONX", "STATEN ISLAND", "UNKNOWN"}

\* line 218: fillna('UNKNOWN').str.upper().str.strip()
BoroughCleanupCol(b) ==
  IF b = NoColumn THEN b
  ELSE IF b = Null THEN "UNKNOWN"
  ELSE StrStrip(StrUpper(b))

\* lines 217-220: the rows kept by the borough filter
HasValidBorough(b) == b = NoColumn \/ b \in ValidBoroughs

\* astype(int): the whole part of a value in tenths, towards zero
AsInt(v) == IF v >= 0 THEN v \div 10 ELSE 0 - ((0 - v) \div 10)

\* lines 232-235: a missing column is created with 0; to_numeric, fillna(0), astype(int)
CleanCount(c) == IF c.t = "num" THEN AsInt(c.v) ELSE 0

\* lines 256-265
TotalInvolved(row) ==
  row.persons_injured + row.persons_killed + row.pedestrians_injured
  + row.pedestrians_killed + row.cyclists_injured + row.cyclists_killed
  + row.motorists_injured + row.motorists_killed

\* a classification without the MINOR level
_determine_severity_noMinor(row) ==
  IF row.persons_killed > 0 THEN "FATAL"
  ELSE IF row.persons_injured >= 3 THEN "SEVERE"
  ELSE IF row.persons_injured > 0 THEN "MODERATE"
  ELSE "NONE"

\* lines 291-301
_determine_severity(row) ==
  IF row.persons_killed > 0 THEN "FATAL"
  ELSE IF row.persons_injured >= 3 THEN "SEVERE"
  ELSE IF row.persons_injured > 0 THEN "MODERATE"
  ELSE IF row.total_involved > 0 THEN "MINOR"
  ELSE "NONE"

\* lines 212-235: the row with its crash_datetime, its borough and its counts
CleanCollisionRow(row) ==
  [collision_id |-> row.collision_id,
   crash_datetime |-> _parse_crash_datetime(row),
   borough |-> BoroughCleanupCol(row.borough),
   persons_injured |-> CleanCount(row.persons_injured),
   persons_killed |-> CleanCount(row.persons_killed),
   pedestrians_injured |-> CleanCount(row.pedestrians_injured),
   pedestrians_killed |-> CleanCount(row.pedestrians_killed),
   cyclists_injured |-> CleanCount(row.cyclists_injured),
   cyclists_killed |-> CleanCount(row.cyclists_killed),
   motorists_injured |-> CleanCount(row.motorists_injured),
   motorists_killed |-> CleanCount(row.motorists_killed)]

\* lines 253-267: the derived features
DeriveCollisionRow(row) ==
  LET total == TotalInvolved(row)
  IN [collision_id |-> row.collision_id, crash_datetime |-> row.crash_datetime,
      borough |-> row.borough,
      persons_injured |-> row.persons_injured, persons_killed |-> row.persons_killed,
      pedestrians_injured |-> row.pedestrians_injured,
      pedestrians_killed |-> row.pedestrians_killed,
      cyclists_injured |-> row.cyclists_injured, cyclists_killed |-> row.cyclists_killed,
      motorists_injured |-> row.motorists_injured,
      motorists_killed |-> row.motorists_killed,
      has_injuries |-> row.persons_injured > 0,
      has_fatalities |-> row.persons_killed > 0,
      total_involved |-> total,
      severity_level |-> _determine_severity([persons_killed |-> row.persons_killed,
                                             persons_injured |-> row.persons_injured,
                                             total_involved |-> total])]

\* a cleaner that drops only the rows without collision_id
IsInvalidCollision_idOnly(row) == row.collision_id = Null

\* line 247: dropna(subset=['collision_id', 'crash_datetime'])
IsInvalidCollision(row) == row.collision_id = Null \/ row.crash_datetime.t = "nat"

\* line 248: a row after the first of its collision_id
IsDuplicateCol(rows, i) ==
  \E j \in 1..(i - 1) : rows[j].collision_id = rows[i].collision_id

RECURSIVE KeepFirstCol(_, _)
\* line 248: the first i rows without their duplicates
KeepFirstCol(rows, i) ==
  IF i = 0 THEN <<>>
  ELSE IF IsDuplicateCol(rows, i) THEN KeepFirstCol(rows, i - 1)
  ELSE Append(KeepFirstCol(rows, i - 1), rows[i])

\* lines 168-270: CollisionsTransformer.transform
CollisionsTransformer_transform(table) ==
  LET rows == [i \in 1..Len(table) |-> CleanCollisionRow(table[i])]
      kept == SelectSeq(rows, LAMBDA r : HasValidBorough(r.borough) /\ ~IsInvalidCollision(r))
      first == KeepFirstCol(kept, Len(kept))
  IN [i \in 1..Len(first) |-> DeriveCollisionRow(first[i])]

IdleCol ==
  /\ colpc = "off"
  /\ colRaw = <<>> /\ colClean = <<>>

InitCol ==
  /\ colpc = "raw"
  /\ colRaw \in {<<r>> : r \in RawCollisionRows}
                \cup (TablesOver(RawCollisionTableRows, MaxColRows)
                      \ {<<r>> : r \in RawCollisionTableRows})
  /\ colClean = <<>>

TransformCollisions ==
  /\ colpc = "raw"
  /\ colClean' = CollisionsTransformer_transform(colRaw)
  /\ colpc' = "clean"
  /\ UNCHANGED colRaw

(***************************************************************************)
(* PART 3 - src/load.py, ExactSchemaDatabaseLoader                         *)
(* Several loaders (one per pipeline instance) work on one store, each on  *)
(* its own connection, with autocommit off (the default of                 *)
(* mysql.connector.connect): the statements of a load call form            *)
(* transactions ended by conn.commit() / conn.rollback().                  *)
(* A local timestamp is a number of hours; NaT is a timestamp that is      *)
(* null or cannot be parsed.                                               *)
(*                                                                         *)
(* A step of a loader is one statement sent to the store (a SELECT, an     *)
(* INSERT, a commit), with the local computation that precedes it; the     *)
(* statements of the other loaders run between any two of them.            *)
(* A row without collision_id is given an id made of the second of the     *)
(* wall clock and of the index label of the row in its table.              *)
(***************************************************************************)
VARIABLES
  isolation,        \* the isolation level of the store's transactions
  dim_datetime,     \* the rows of dim_datetime
  dim_location,     \* the rows of dim_location
  fact_weather,     \* the rows of fact_weather
  fact_collisions,  \* the rows of fact_collisions
  lastid,           \* the AUTO_INCREMENT counter of each dimension table
  snapshot,         \* snapshot[s]: the transaction of s has made its first read
  ld,               \* ld[s]: the loader s: position in the load call, locals, counters
  ncalls,           \* load calls begun so far
  timestamp,        \* int(datetime.now().timestamp()) when an id was generated last
  resolved          \* (history) the <<dimension, value, id>> returned by the
                    \* resolutions so far

varsLoad == <<isolation, dim_datetime, dim_location, fact_weather, fact_collisions,
              lastid, snapshot, ld, ncalls, timestamp, resolved>>

\* the loaders
Sess == {1, 2}
\* load calls explored, over all loaders
MaxCalls == 2
\* rows of the table passed to a load call
MaxRows == 2
\* seconds of wall clock in which ids are generated
MaxStamp == 1

NaT == 0
\* batch_size: 2 commits after every second insert, 100 is the default
\* (lines 136, 256)
BatchSizes == {2, 100}
\* the isolation level is the server's, REPEATABLE READ unless it is
\* configured otherwise: load.py does not set it
Isolations == {"READ-COMMITTED", "REPEATABLE-READ"}

\* errno of a uniqueness violation (lines 95, 126, 228, 405)
ER_DUP_ENTRY == 1062
\* errno of a lock wait that timed out: an error other than 1062
ER_LOCK_WAIT_TIMEOUT == 1205

NoCollisionId == Null
\* a visibility that is NaN in the cleaned table, None in the loader (line 196)
NoVisibility == 0 - 1
\* rows of a cleaned weather table; the local timestamps explored are
\* 31 (2024-01-02 07:00) and 45 (2024-01-02 21:00), in hours; precipitation
\* is in whole units, visibility in metres
WeatherRowInputs ==
  {[datetime |-> 31, borough |-> " bronx", collision_id |-> NoCollisionId,
    precipitation |-> 0, visibility |-> 0],
   [datetime |-> 31, borough |-> "newark", collision_id |-> NoCollisionId,
    precipitation |-> 6, visibility |-> NoVisibility],
   [datetime |-> NaT, borough |-> "BRONX", collision_id |-> NoCollisionId,
    precipitation |-> 0, visibility |-> 31000]}

\* a row of a cleaned collisions table: datetime is what crash_date and
\* crash_time parse to (NaT: crash_date is null or nothing parses); the counts
\* are those of the cleaner, total_involved and severity_level are derived
\* from them as the cleaner derives them (transform.py lines 256-267)
CleanedCollision(dt, borough, cid, injured, killed, others) ==
  [datetime |-> dt, borough |-> borough, collision_id |-> cid,
   persons_injured |-> injured, persons_killed |-> killed,
   total_involved |-> injured + killed + others,
   severity_level |-> _determine_severity([persons_killed |-> killed,
                                          persons_injured |-> injured,
                                          total_involved |-> injured + killed + others])]
CollisionRowInputs ==
  {CleanedCollision(31, "BRONX", "4501", 0, 0, 1),
   CleanedCollision(31, "BRONX", NoCollisionId, 1, 0, 1),
   CleanedCollision(45, Null, "4502", 3, 1, 0)}

RowInputs(kind) == IF kind = "weather" THEN WeatherRowInputs ELSE CollisionRowInputs

\* pd.isna
IsNa(x) == x = Null

\* str(borough).strip().upper()
StripUpper(b) ==
  CASE b = " bronx" -> "BRONX"
    [] b = "newark" -> "NEWARK"
    [] OTHER -> b

\* lines 109-112: the borough that ensure_location_dim looks up
NormalizeBorough(b) ==
  IF IsNa(b) \/ StripUpper(b) = "" THEN "UNKNOWN" ELSE StripUpper(b)

\* lines 287-289: the borough of a collision row
CollisionBorough(b) == IF IsNa(b) THEN "UNKNOWN" ELSE b

\* lines 280-284: the collision id of a row, generated when the row has none
CollisionId(row, now, idx) ==
  IF ~IsNa(row.collision_id) THEN row.collision_id
  ELSE "COL_" \o ToString(now) \o "_" \o ToString(idx)

\* lines 163-172 (weather), 295-309 (collisions): the rows that are skipped
SkipsRow(kind, row) ==
  IF kind = "weather"
    THEN IsNa(row.borough) \/ row.datetime = NaT
    ELSE row.datetime = NaT

\* lines 48-75: the attributes ensure_datetime_dim derives from dt_nyc
HourOf(dt) == dt % 24
IsRushHourDim(h) == (7 <= h /\ h <= 9) \/ (16 <= h /\ h <= 19)
IsNightDim(h) == h >= 22 \/ h < 6
UtcShift == 5
DatetimeRow(id, dt_nyc) ==
  [id |-> id, datetime_nyc |-> dt_nyc, datetime_utc |-> dt_nyc - UtcShift,
   hour_nyc |-> HourOf(dt_nyc), is_rush_hour |-> IsRushHourDim(HourOf(dt_nyc)),
   is_night |-> IsNightDim(HourOf(dt_nyc))]

\* line 203: is_adverse; a visibility of None or 0 is falsy
IsAdverse(precipitation, visibility) ==
  IF precipitation > 5
     \/ (visibility # NoVisibility /\ visibility # 0 /\ visibility < 1000)
    THEN 1 ELSE 0

\* lines 325-336: the severity that load_collision_data_exact computes
Severity(persons_injured, persons_killed) ==
  IF persons_killed > 0 THEN "FATAL"
  ELSE IF persons_injured >= 3 THEN "SEVERE"
  ELSE IF persons_injured > 0 THEN "MODERATE"
  ELSE "NONE"

\* line 122: the row of dim_location
LocationRow(id, borough) == [id |-> id, borough |-> borough]

(***************************************************************************)
(* The store. A row carries, besides its columns (col): txn, the loader    *)
(* whose open transaction inserted it (0 once committed); hidden, the      *)
(* loaders whose read snapshot is older than the row's commit. A fact      *)
(* carries also (history): call, the load call that inserted it; at, the   *)
(* number of load calls begun when it was committed.                       *)
(***************************************************************************)
StoredDim(row, s) == [col |-> row, txn |-> s, hidden |-> {}]
StoredFact(row, s, call) ==
  [col |-> row, txn |-> s, hidden |-> {}, call |-> call, at |-> 0]

\* what a SELECT of loader s sees: its own rows and the committed rows that
\* its snapshot (REPEATABLE READ) does not predate
Visible(s, r) == r.txn = s \/ (r.txn = 0 /\ s \notin r.hidden)
Select(s, table) == {r \in table : Visible(s, r)}

\* an INSERT of a row whose unique key is held by the rows same: it waits for
\* the open transaction of another loader, fails with 1062 on a committed row
InsertStatus(s, same) ==
  IF \E r \in same : r.txn \notin {0, s} THEN "blocked"
  ELSE IF same # {} THEN "duplicate"
  ELSE "ok"

\* conn.commit() of loader s: its rows become visible to every transaction
\* that reads the latest committed rows; its own snapshot ends
CommitTable(s, table) ==
  {IF r.txn = s
     THEN [r EXCEPT !.txn = 0,
                    !.hidden = IF isolation = "REPEATABLE-READ"
                                 THEN {t \in Sess \ {s} : snapshot[t]} ELSE {}]
     ELSE [r EXCEPT !.hidden = @ \ {s}] : r \in table}

\* (history) the facts that the commit of loader s commits are stamped
Stamp(s, table) == {IF r.txn = s THEN [r EXCEPT !.at = ncalls] ELSE r : r \in table}

\* conn.rollback() of loader s, or the loss of its transaction
RollbackTable(s, table) ==
  {[r EXCEPT !.hidden = @ \ {s}] : r \in {x \in table : x.txn # s}}

Commit(s) ==
  /\ dim_datetime' = CommitTable(s, dim_datetime)
  /\ dim_location' = CommitTable(s, dim_location)
  /\ fact_weather' = CommitTable(s, Stamp(s, fact_weather))
  /\ fact_collisions' = CommitTable(s, Stamp(s, fact_collisions))
  /\ snapshot' = [snapshot EXCEPT ![s] = FALSE]
  /\ UNCHANGED resolved

Rollback(s) ==
  /\ dim_datetime' = RollbackTable(s, dim_datetime)
  /\ dim_location' = RollbackTable(s, dim_location)
  /\ fact_weather' = RollbackTable(s, fact_weather)
  /\ fact_collisions' = RollbackTable(s, fact_collisions)
  /\ snapshot' = [snapshot EXCEPT ![s] = FALSE]
  /\ UNCHANGED resolved

(***************************************************************************)
(* The loaders                                                             *)
(***************************************************************************)
IdleLoader ==
  [pc |-> "idle", kind |-> "weather", batch_size |-> 1, callno |-> 0, n |-> 0,
   total_loaded |-> 0, total_skipped |-> 0, duplicates |-> 0,
   dt_nyc |-> NaT, borough |-> Null, collision_id |-> NoCollisionId,
   precipitation |-> 0, visibility |-> NoVisibility,
   persons_injured |-> 0, persons_killed |-> 0,
   datetime_id |-> 0, location_id |-> 0, conn |-> FALSE, ret |-> Null]

IdleLoad ==
  /\ isolation = "REPEATABLE-READ"
  /\ dim_datetime = {} /\ dim_location = {}
  /\ fact_weather = {} /\ fact_collisions = {}
  /\ lastid = [datetime |-> 0, location |-> 0]
  /\ snapshot = [s \in Sess |-> FALSE]
  /\ ld = [s \in Sess |-> IdleLoader]
  /\ ncalls = 0
  /\ timestamp = 1
  /\ resolved = {}

\* the natural key of a fact
WeatherKey(dt, b) == [kind |-> "weather", datetime |-> dt, borough |-> b, collision_id |-> Null]
CollisionKey(cid) == [kind |-> "collisions", datetime |-> NaT, borough |-> Null, collision_id |-> cid]

\* the row inserted into fact_weather (lines 214-218) or fact_collisions (378-395)
FactRow(l) ==
  IF l.kind = "weather"
    THEN [datetime_id |-> l.datetime_id, location_id |-> l.location_id,
          collision_id |-> l.collision_id,
          key |-> WeatherKey(l.dt_nyc, NormalizeBorough(l.borough)),
          precipitation |-> l.precipitation, visibility |-> l.visibility,
          is_adverse_weather |-> IsAdverse(l.precipitation, l.visibility)]
    ELSE [datetime_id |-> l.datetime_id, location_id |-> l.location_id,
          collision_id |-> l.collision_id,
          key |-> CollisionKey(l.collision_id),
          persons_injured |-> l.persons_injured, persons_killed |-> l.persons_killed,
          severity_level |-> Severity(l.persons_injured, l.persons_killed)]

\* the store before the load calls explored: empty, or as an earlier run of
\* the pipeline has left it, with the fact of one collision and its two
\* dimension rows committed
EmptyStore ==
  [dim_datetime |-> {}, dim_location |-> {}, fact_collisions |-> {},
   lastid |-> [datetime |-> 0, location |-> 0]]
EarlierRow ==
  [IdleLoader EXCEPT !.kind = "collisions", !.dt_nyc = 31, !.borough = "BRONX",
                     !.collision_id = "4501", !.datetime_id = 1, !.location_id = 1]
EarlierStore ==
  [dim_datetime |-> {[StoredDim(DatetimeRow(1, 31), 0) EXCEPT !.txn = 0]},
   dim_location |-> {[StoredDim(LocationRow(1, "BRONX"), 0) EXCEPT !.txn = 0]},
   fact_collisions |-> {[StoredFact(FactRow(EarlierRow), 0, 0) EXCEPT !.txn = 0]},
   lastid |-> [datetime |-> 1, location |-> 1]]
InitialStores == {EmptyStore, EarlierStore}

\* a store and loaders that have not been called
InitLoad ==
  /\ isolation \in Isolations
  /\ \E store \in InitialStores :
       /\ dim_datetime = store.dim_datetime
       /\ dim_location = store.dim_location
       /\ fact_collisions = store.fact_collisions
       /\ lastid = store.lastid
  /\ fact_weather = {}
  /\ snapshot = [s \in Sess |-> FALSE]
  /\ ld = [s \in Sess |-> IdleLoader]
  /\ ncalls = 0
  /\ timestamp = 1
  /\ resolved = {}

\* lines 136-150, 256-269: connect, the empty-table return, the cursor and the counters.
\* A connect that is refused leaves self.conn as it was (lines 17-35): the
\* connection that an empty-table return left open stays open.
\* The loaders are numbered in the order of their first call.
BeginLoad(s, kind, bs, empty, connected) ==
  /\ ld[s].pc = "idle"
  /\ \A t \in Sess : t < s => ld[t].callno # 0
  /\ ncalls < MaxCalls
  /\ ncalls' = ncalls + 1
  /\ ld' = [ld EXCEPT ![s] =
       IF ~connected
         THEN [IdleLoader EXCEPT !.kind = kind, !.callno = ncalls + 1, !.ret = "False",
                                 !.conn = ld[s].conn]
       ELSE IF empty
         THEN [IdleLoader EXCEPT !.kind = kind, !.callno = ncalls + 1, !.ret = "True",
                                 !.conn = TRUE]
       ELSE [IdleLoader EXCEPT !.kind = kind, !.callno = ncalls + 1, !.pc = "row",
                               !.batch_size = bs, !.conn = TRUE]]
  /\ UNCHANGED <<isolation, dim_datetime, dim_location, fact_weather, fact_collisions,
                 lastid, snapshot, timestamp, resolved>>

\* lines 227-238, 404-415: the handler of an exception raised while a row is
\* processed: errno 1062 counts a duplicate, anything else a skipped row
ExceptRow(l, errno) ==
  IF errno = ER_DUP_ENTRY
    THEN [l EXCEPT !.duplicates = @ + 1, !.pc = "row"]
    ELSE [l EXCEPT !.total_skipped = @ + 1, !.pc = "row"]

\* lines 45-46, 99-100, 118-119, 129-130: a resolution returns the id of the row found
FoundId(r) == r.col.id

\* the facts with the unique key of the row that loader l is processing:
\* (datetime_id, location_id) in fact_weather, collision_id in fact_collisions
SameFact(l, table) ==
  IF l.kind = "weather"
    THEN {r \in table : r.col.datetime_id = l.datetime_id /\ r.col.location_id = l.location_id}
    ELSE {r \in table : r.col.collision_id = l.collision_id}

FactTable(l) == IF l.kind = "weather" THEN fact_weather ELSE fact_collisions

\* a pre-check that counts the fact that exists already as a skipped row
FactStage_skipped(s, l) ==
  IF SameFact(l, Select(s, FactTable(l))) # {}
    THEN [l EXCEPT !.total_skipped = @ + 1, !.pc = "row"]
    ELSE [l EXCEPT !.pc = "fact_insert"]

\* lines 182-190, 319-323: the fact that exists already is counted as a
\* duplicate; otherwise the INSERT is next
FactStage(s, l) ==
  IF SameFact(l, Select(s, FactTable(l))) # {}
    THEN [l EXCEPT !.duplicates = @ + 1, !.pc = "row"]
    ELSE [l EXCEPT !.pc = "fact_insert"]

\* lines 106-119: ensure_location_dim normalises the borough and looks it up;
\* the INSERT is next when it finds nothing
LocationStage(s, l) ==
  LET b == NormalizeBorough(l.borough)
      found == {r \in Select(s, dim_location) : r.col.borough = b}
  IN IF found # {}
       THEN [l EXCEPT !.location_id = FoundId(CHOOSE r \in found : TRUE),
                      !.pc = "fact_select"]
       ELSE [l EXCEPT !.pc = "loc_insert"]

\* lines 41-46: ensure_datetime_dim looks the timestamp up; the INSERT is next
\* when it finds nothing
DatetimeStage(s, l) ==
  LET found == {r \in Select(s, dim_datetime) : r.col.datetime_nyc = l.dt_nyc}
  IN IF found # {}
       THEN [l EXCEPT !.datetime_id = FoundId(CHOOSE r \in found : TRUE),
                      !.pc = "loc_select"]
       ELSE [l EXCEPT !.pc = "dt_insert"]

\* what the resolutions of the row of l have returned
Returned(l) ==
  {<<"datetime", l.dt_nyc, l.datetime_id>> : x \in {y \in {l.pc} : l.datetime_id # 0}}
  \cup {<<"location", NormalizeBorough(l.borough), l.location_id>> :
          x \in {y \in {l.pc} : l.location_id # 0}}

\* lines 280-284: a row without collision_id is given a generated id
GeneratesId(kind, row) == kind = "collisions" /\ IsNa(row.collision_id)

\* line 277: the index labels of the rows of a table: any labels, which need
\* not follow the positions nor differ from one another (a cleaned table keeps
\* the labels of the raw rows that were kept)
IndexLabels == 0..(MaxRows - 1)

\* lines 157-179, 277-316: the next row of the table: the checks for null and
\* unparseable values, then the SELECT of ensure_datetime_dim (lines 41-46).
\* tick: a second of wall clock has passed since an id was generated last.
\* datetime_id and location_id are assigned by the resolutions of the row
\* before they are read: they start from 0 in each row.
NextRow(s, row, tick, idx) ==
  LET l == ld[s]
      l1 == [l EXCEPT !.n = @ + 1, !.dt_nyc = row.datetime,
                      !.datetime_id = 0, !.location_id = 0,
                      !.borough = IF l.kind = "weather" THEN row.borough
                                  ELSE CollisionBorough(row.borough),
                      !.collision_id = IF l.kind = "weather" THEN NoCollisionId
                                       ELSE CollisionId(row, timestamp + tick, idx),
                      !.precipitation = IF l.kind = "weather" THEN row.precipitation ELSE 0,
                      !.visibility = IF l.kind = "weather" THEN row.visibility
                                     ELSE NoVisibility,
                      !.persons_injured = IF l.kind = "weather" THEN 0
                                          ELSE row.persons_injured,
                      !.persons_killed = IF l.kind = "weather" THEN 0
                                         ELSE row.persons_killed]
      l2 == DatetimeStage(s, l1)
  IN /\ l.pc = "row"
     /\ l.n < MaxRows
     /\ row \in RowInputs(l.kind)
     /\ tick = 1 => (GeneratesId(l.kind, row) /\ timestamp < MaxStamp)
     /\ idx \in IndexLabels
     /\ timestamp' = timestamp + tick
     /\ IF SkipsRow(l.kind, row)
          THEN /\ ld' = [ld EXCEPT ![s] = [l1 EXCEPT !.total_skipped = @ + 1]]
               /\ UNCHANGED <<snapshot, resolved>>
          ELSE /\ ld' = [ld EXCEPT ![s] = l2]
               /\ snapshot' = [snapshot EXCEPT ![s] = TRUE]
               /\ resolved' = resolved \cup Returned(l2)
     /\ UNCHANGED <<isolation, dim_datetime, dim_location, fact_weather,
                    fact_collisions, lastid, ncalls>>

\* lines 48-92: the INSERT of ensure_datetime_dim: lastrowid is returned, or
\* errno 1062 is caught (lines 94-95)
DatetimeInsert(s) ==
  LET l == ld[s]
      same == {r \in dim_datetime : r.col.datetime_nyc = l.dt_nyc}
      id == lastid.datetime + 1
      l2 == IF InsertStatus(s, same) = "ok"
              THEN [l EXCEPT !.datetime_id = id, !.pc = "loc_select"]
              ELSE [l EXCEPT !.pc = "dt_requery"]
  IN /\ l.pc = "dt_insert"
     /\ InsertStatus(s, same) # "blocked"
     /\ IF InsertStatus(s, same) = "ok"
          THEN /\ dim_datetime' = dim_datetime \cup
                     {StoredDim(DatetimeRow(id, l.dt_nyc), s)}
               /\ lastid' = [lastid EXCEPT !.datetime = id]
          ELSE UNCHANGED <<dim_datetime, lastid>>
     /\ ld' = [ld EXCEPT ![s] = l2]
     /\ resolved' = resolved \cup Returned(l2)
     /\ UNCHANGED <<isolation, dim_location, fact_weather, fact_collisions, snapshot,
                    ncalls, timestamp>>

\* lines 96-101: after errno 1062 the lookup is repeated; the id found is
\* returned, and when nothing is found the error is raised again, to the
\* handler of the row
DatetimeRequery(s) ==
  LET l == ld[s]
      found == {r \in Select(s, dim_datetime) : r.col.datetime_nyc = l.dt_nyc}
      l2 == IF found # {}
              THEN [l EXCEPT !.datetime_id = FoundId(CHOOSE r \in found : TRUE),
                             !.pc = "loc_select"]
              ELSE ExceptRow(l, ER_DUP_ENTRY)
  IN /\ l.pc = "dt_requery"
     /\ ld' = [ld EXCEPT ![s] = l2]
     /\ resolved' = resolved \cup Returned(l2)
     /\ UNCHANGED <<isolation, dim_datetime, dim_location, fact_weather, fact_collisions,
                    lastid, snapshot, ncalls, timestamp>>

\* lines 106-119: the SELECT of ensure_location_dim
LocationSelect(s) ==
  LET l2 == LocationStage(s, ld[s])
  IN /\ ld[s].pc = "loc_select"
     /\ ld' = [ld EXCEPT ![s] = l2]
     /\ resolved' = resolved \cup Returned(l2)
     /\ UNCHANGED <<isolation, dim_datetime, dim_location, fact_weather, fact_collisions,
                    lastid, snapshot, ncalls, timestamp>>

\* lines 121-124: the INSERT of ensure_location_dim
LocationInsert(s) ==
  LET l == ld[s]
      b == NormalizeBorough(l.borough)
      same == {r \in dim_location : r.col.borough = b}
      id == lastid.location + 1
      l2 == IF InsertStatus(s, same) = "ok"
              THEN [l EXCEPT !.location_id = id, !.pc = "fact_select"]
              ELSE [l EXCEPT !.pc = "loc_requery"]
  IN /\ l.pc = "loc_insert"
     /\ InsertStatus(s, same) # "blocked"
     /\ IF InsertStatus(s, same) = "ok"
          THEN /\ dim_location' = dim_location \cup {StoredDim(LocationRow(id, b), s)}
               /\ lastid' = [lastid EXCEPT !.location = id]
          ELSE UNCHANGED <<dim_location, lastid>>
     /\ ld' = [ld EXCEPT ![s] = l2]
     /\ resolved' = resolved \cup Returned(l2)
     /\ UNCHANGED <<isolation, dim_datetime, fact_weather, fact_collisions, snapshot,
                    ncalls, timestamp>>

\* lines 125-131: the lookup repeated after errno 1062
LocationRequery(s) ==
  LET l == ld[s]
      found == {r \in Select(s, dim_location) : r.col.borough = NormalizeBorough(l.borough)}
      l2 == IF found # {}
              THEN [l EXCEPT !.location_id = FoundId(CHOOSE r \in found : TRUE),
                             !.pc = "fact_select"]
              ELSE ExceptRow(l, ER_DUP_ENTRY)
  IN /\ l.pc = "loc_requery"
     /\ ld' = [ld EXCEPT ![s] = l2]
     /\ resolved' = resolved \cup Returned(l2)
     /\ UNCHANGED <<isolation, dim_datetime, dim_location, fact_weather, fact_collisions,
                    lastid, snapshot, ncalls, timestamp>>

\* lines 182-190, 319-323: the SELECT that looks the fact up
FactSelect(s) ==
  /\ ld[s].pc = "fact_select"
  /\ ld' = [ld EXCEPT ![s] = FactStage(s, ld[s])]
  /\ UNCHANGED <<isolation, dim_datetime, dim_location, fact_weather, fact_collisions,
                 lastid, snapshot, ncalls, timestamp, resolved>>

\* lines 220-225, 397-402: the row is counted; every batch_size rows a commit is due
Loaded(l) ==
  [l EXCEPT !.total_loaded = @ + 1,
            !.pc = IF (l.total_loaded + 1) % l.batch_size = 0 THEN "batch_commit" ELSE "row"]

\* lines 205-220, 364-397: the INSERT of the fact; a uniqueness violation goes
\* to the handler of the row
FactInsert(s) ==
  LET l == ld[s]
      same == SameFact(l, FactTable(l))
  IN /\ l.pc = "fact_insert"
     /\ InsertStatus(s, same) # "blocked"
     /\ IF InsertStatus(s, same) = "duplicate"
          THEN /\ ld' = [ld EXCEPT ![s] = ExceptRow(l, ER_DUP_ENTRY)]
               /\ UNCHANGED <<fact_weather, fact_collisions>>
          ELSE /\ ld' = [ld EXCEPT ![s] = Loaded(l)]
               /\ IF l.kind = "weather"
                    THEN /\ fact_weather' = fact_weather \cup {StoredFact(FactRow(l), s, l.callno)}
                         /\ UNCHANGED fact_collisions
                    ELSE /\ fact_collisions' = fact_collisions \cup {StoredFact(FactRow(l), s, l.callno)}
                         /\ UNCHANGED fact_weather
     /\ UNCHANGED <<isolation, dim_datetime, dim_location, lastid, snapshot, ncalls,
                    timestamp, resolved>>

\* an INSERT that waits for the open transaction of another loader gives up
\* (errno 1205): ensure_*_dim re-raises it (lines 102-104, 132-134), and the
\* handler of the row counts the row as skipped
LockWaitTimeout(s) ==
  LET l == ld[s]
      same == CASE l.pc = "dt_insert" -> {r \in dim_datetime : r.col.datetime_nyc = l.dt_nyc}
                [] l.pc = "loc_insert" ->
                     {r \in dim_location : r.col.borough = NormalizeBorough(l.borough)}
                [] l.pc = "fact_insert" -> SameFact(l, FactTable(l))
                [] OTHER -> {}
  IN /\ l.pc \in {"dt_insert", "loc_insert", "fact_insert"}
     /\ InsertStatus(s, same) = "blocked"
     /\ ld' = [ld EXCEPT ![s] = ExceptRow(l, ER_LOCK_WAIT_TIMEOUT)]
     /\ UNCHANGED <<isolation, dim_datetime, dim_location, fact_weather, fact_collisions,
                    lastid, snapshot, ncalls, timestamp, resolved>>

\* lines 222-225, 399-402: the commit of a batch. When it raises, the
\* transaction is lost and the handler of the row counts the row as skipped.
BatchCommit(s, ok) ==
  LET l == ld[s]
  IN /\ l.pc = "batch_commit"
     /\ IF ok
          THEN /\ Commit(s)
               /\ ld' = [ld EXCEPT ![s] = [l EXCEPT !.pc = "row"]]
          ELSE /\ Rollback(s)
               /\ ld' = [ld EXCEPT ![s] = ExceptRow(l, ER_LOCK_WAIT_TIMEOUT)]
     /\ UNCHANGED <<isolation, lastid, ncalls, timestamp>>

\* the for loop ends: the table has no more rows
EndOfTable(s) ==
  /\ ld[s].pc = "row"
  /\ ld[s].n >= 1
  /\ ld' = [ld EXCEPT ![s] = [@ EXCEPT !.pc = "final_commit"]]
  /\ UNCHANGED <<isolation, dim_datetime, dim_location, fact_weather, fact_collisions,
                 lastid, snapshot, ncalls, timestamp, resolved>>

\* what a load call leaves when it returns: its result (the counters are
\* locals of the call, logged at line 244 or 421)
ReturnLoad(l, ret) ==
  [IdleLoader EXCEPT !.kind = l.kind, !.callno = l.callno, !.ret = ret]

\* What the final commit can do: "committed"; "rolled_back", the commit raises
\* and conn.rollback() succeeds; "raised", conn.rollback() raises too (the
\* connection is lost, and with it the transaction).
FinalOutcomes == {"committed", "rolled_back", "raised"}

\* lines 240-254, 417-431: the final commit and return True; when it raises,
\* the rollback and return False; when the rollback raises the exception
\* leaves the call; in every case the connection is closed
FinalCommit(s, outcome) ==
  LET l == ld[s]
  IN /\ l.pc = "final_commit"
     /\ IF outcome = "committed"
          THEN /\ Commit(s)
               /\ ld' = [ld EXCEPT ![s] = ReturnLoad(l, "True")]
          ELSE /\ Rollback(s)
               /\ ld' = [ld EXCEPT ![s] =
                           ReturnLoad(l, IF outcome = "rolled_back" THEN "False"
                                         ELSE "raised")]
     /\ UNCHANGED <<isolation, lastid, ncalls, timestamp>>

(***************************************************************************)
(* Specifications                                                          *)
(***************************************************************************)
vars == <<varsPipe, varsWx, varsWxT, varsCol, varsLoad>>

\* the orchestrator alone
PipeInit == InitPipe /\ IdleWx /\ IdleWxT /\ IdleCol /\ IdleLoad
PipeNext ==
  \/ \E sd \in StartDates, ed \in EndDates, today \in Todays :
       StartRun(sd, ed, today) /\ UNCHANGED <<varsWx, varsWxT, varsCol, varsLoad>>
  \/ \E ok \in BOOLEAN : Extract(ok) /\ UNCHANGED <<varsWx, varsWxT, varsCol, varsLoad>>
  \/ \E ok \in BOOLEAN : Fallback(ok) /\ UNCHANGED <<varsWx, varsWxT, varsCol, varsLoad>>
  \/ \E stage \in TransformStages :
       Transform(stage) /\ UNCHANGED <<varsWx, varsWxT, varsCol, varsLoad>>
  \/ \E stage \in TransformStages :
       CollisionsCsv(stage) /\ UNCHANGED <<varsWx, varsWxT, varsCol, varsLoad>>
  \/ \E o \in LoadOutcomes : Load(o) /\ UNCHANGED <<varsWx, varsWxT, varsCol, varsLoad>>
  \/ \E outcome \in SummaryOutcomes :
       Summary(outcome) /\ UNCHANGED <<varsWx, varsWxT, varsCol, varsLoad>>
  \/ Tick /\ UNCHANGED <<varsWx, varsWxT, varsCol, varsLoad>>
  \/ GlobWeather /\ UNCHANGED <<varsWx, varsWxT, varsCol, varsLoad>>
  \/ GlobCollisions /\ UNCHANGED <<varsWx, varsWxT, varsCol, varsLoad>>
  \/ LatestWeather /\ UNCHANGED <<varsWx, varsWxT, varsCol, varsLoad>>
  \/ LatestCollisions /\ UNCHANGED <<varsWx, varsWxT, varsCol, varsLoad>>
  \/ ReadWeather /\ UNCHANGED <<varsWx, varsWxT, varsCol, varsLoad>>
  \/ ReadCollisions /\ UNCHANGED <<varsWx, varsWxT, varsCol, varsLoad>>
  \/ RestartDashboard /\ UNCHANGED <<varsWx, varsWxT, varsCol, varsLoad>>
  \/ \E outcome \in ErrorOutcomes :
       ErrorReport(outcome) /\ UNCHANGED <<varsWx, varsWxT, varsCol, varsLoad>>
  \/ NextRun /\ UNCHANGED <<varsWx, varsWxT, varsCol, varsLoad>>
SpecPipe == PipeInit /\ [][PipeNext]_vars

\* the weather cleaner alone, on every raw row of RawWeatherRows
WxInit == InitWx /\ InitPipe /\ IdleWxT /\ IdleCol /\ IdleLoad
WxNext == TransformWeather /\ UNCHANGED <<varsPipe, varsWxT, varsCol, varsLoad>>
SpecWx == WxInit /\ [][WxNext]_vars

\* the weather cleaner on every raw table of up to MaxWxRows rows, and on its own output
WxTInit == InitWxT /\ InitPipe /\ IdleWx /\ IdleCol /\ IdleLoad
WxTNext ==
  \/ TransformWeatherTable /\ UNCHANGED <<varsPipe, varsWx, varsCol, varsLoad>>
  \/ TransformWeatherAgain /\ UNCHANGED <<varsPipe, varsWx, varsCol, varsLoad>>
SpecWxT == WxTInit /\ [][WxTNext]_vars

\* the collisions cleaner on the raw tables of one row and of up to MaxColRows rows
ColInit == InitCol /\ InitPipe /\ IdleWx /\ IdleWxT /\ IdleLoad
ColNext == TransformCollisions /\ UNCHANGED <<varsPipe, varsWx, varsWxT, varsLoad>>
SpecCol == ColInit /\ [][ColNext]_vars

\* the loaders on their store, running at the same time
LoadInit == InitLoad /\ InitPipe /\ IdleWx /\ IdleWxT /\ IdleCol
LoadNext ==
  \/ \E s \in Sess, kind \in {"weather", "collisions"}, bs \in BatchSizes,
        empty \in BOOLEAN, connected \in BOOLEAN :
       BeginLoad(s, kind, bs, empty, connected) /\ UNCHANGED <<varsPipe, varsWx, varsWxT, varsCol>>
  \/ \E s \in Sess, row \in WeatherRowInputs \cup CollisionRowInputs, tick \in {0, 1},
          idx \in IndexLabels :
       NextRow(s, row, tick, idx) /\ UNCHANGED <<varsPipe, varsWx, varsWxT, varsCol>>
  \/ \E s \in Sess : DatetimeInsert(s) /\ UNCHANGED <<varsPipe, varsWx, varsWxT, varsCol>>
  \/ \E s \in Sess : DatetimeRequery(s) /\ UNCHANGED <<varsPipe, varsWx, varsWxT, varsCol>>
  \/ \E s \in Sess : LocationSelect(s) /\ UNCHANGED <<varsPipe, varsWx, varsWxT, varsCol>>
  \/ \E s \in Sess : LocationInsert(s) /\ UNCHANGED <<varsPipe, varsWx, varsWxT, varsCol>>
  \/ \E s \in Sess : LocationRequery(s) /\ UNCHANGED <<varsPipe, varsWx, varsWxT, varsCol>>
  \/ \E s \in Sess : FactSelect(s) /\ UNCHANGED <<varsPipe, varsWx, varsWxT, varsCol>>
  \/ \E s \in Sess : FactInsert(s) /\ UNCHANGED <<varsPipe, varsWx, varsWxT, varsCol>>
  \/ \E s \in Sess : LockWaitTimeout(s) /\ UNCHANGED <<varsPipe, varsWx, varsWxT, varsCol>>
  \/ \E s \in Sess, ok \in BOOLEAN : BatchCommit(s, ok) /\ UNCHANGED <<varsPipe, varsWx, varsWxT, varsCol>>
  \/ \E s \in Sess : EndOfTable(s) /\ UNCHANGED <<varsPipe, varsWx, varsWxT, varsCol>>
  \/ \E s \in Sess, outcome \in FinalOutcomes :
       FinalCommit(s, outcome) /\ UNCHANGED <<varsPipe, varsWx, varsWxT, varsCol>>
SpecLoad == LoadInit /\ [][LoadNext]_vars

(***************************************************************************)
(* Properties of the orchestrator (SpecPipe)                               *)
(***************************************************************************)
ExtractionSucceeded == \E i \in 1..Len(attempts) : attempts[i].ok
FirstExtractionFailed == Len(attempts) >= 1 /\ ~attempts[1].ok
\* the run r has written a file of this kind, and the file is still its own
FileOf(kind, r) == \E f \in files : f.kind = kind /\ f.run = r
BothSnapshots == FileOf("weather", run) /\ FileOf("collisions", run)
TransformationSucceeded == tcalls > 0 /\ BothSnapshots
TransformationRaised ==
  tcalls > 0 /\ ppc \notin {"transform", "collisions_csv"} /\ ~BothSnapshots
SummaryFile == FileOf("summary", run)
ErrorFile == FileOf("error", run)

\* C6: a run whose extraction (first or fallback) and transformation succeeded
\* returns success, whatever the load phase did (run_loading returned False,
\* raised, or could not be imported).
C6_LoadFailureNotFatal ==
  /\ (ExtractionSucceeded /\ TransformationSucceeded) => ppc \in {"load", "summary", "returned"}
  /\ (ppc = "returned" /\ ExtractionSucceeded /\ TransformationSucceeded) => result = "True"

\* C7 (the claim as stated): after a failed first extraction exactly one further extraction is made,
\* with the fixed range 2024-01-01..2024-01-07; if it succeeds the run goes on to
\* the transformation with the fallback data; if it fails too, nothing more is
\* extracted, transformation and load never start, an error report is written
\* and the run returns failure.
C7_FallbackOnce ==
  /\ Len(attempts) <= 2
  /\ (FirstExtractionFailed /\ ppc # "fallback") => Len(attempts) = 2
  /\ Len(attempts) = 2 =>
       /\ ~attempts[1].ok
       /\ attempts[2].rng = <<1, 7>>
       /\ attempts[2].ok =>
            /\ extracted = <<1, 7>>
            /\ tcalls = 0 => ppc = "transform"
       /\ ~attempts[2].ok =>
            /\ tcalls = 0 /\ ~lstarted
            /\ ~SummaryFile
            /\ ppc \in {"error", "returned"}
            /\ ppc = "returned" => (result = "False" /\ ErrorFile)

\* C8 (the claim as stated): when the transformation raises it is not retried and nothing replaces
\* it: the load phase is never started, no summary is written, an error report
\* is written and the run returns failure.
C8_TransformFailureFatal ==
  /\ tcalls <= 1
  /\ TransformationRaised =>
       /\ ~lstarted
       /\ ~SummaryFile
       /\ ppc \in {"error", "returned"}
       /\ ppc = "returned" => (result = "False" /\ ErrorFile)

\* C9: both snapshots of a run are written before its load phase starts, so a
\* run that returns success has both, whether the load succeeded, failed or raised.
C9_SnapshotsBeforeLoad ==
  /\ (ppc = "load" \/ lstarted) => BothSnapshots
  /\ result = "True" => BothSnapshots

C9_Witness ==
  /\ result = "True" /\ BothSnapshots
  /\ loadOutcome.kind = "returned" /\ ~loadOutcome.connected

\* the load phase failed: run_loading raised, the store was unreachable, or one
\* of the two fact load calls returned False
LoadFailed ==
  \/ loadOutcome.kind = "exception"
  \/ /\ loadOutcome.kind = "returned"
     /\ (~loadOutcome.connected \/ ~loadOutcome.weather \/ ~loadOutcome.collisions)

\* C21: whenever the load phase failed (store unreachable, or the weather or
\* the collisions load call reported failure) the summary's load status is the
\* failed value, and the run still completes with a summary.
C21_FailedLoadReportedFailed ==
  /\ (lstarted /\ LoadFailed) => ppc \in {"summary", "error", "returned"}
  /\ (FileOf("summary", run) /\ summary.load # Null /\ LoadFailed) =>
       summary.load = "Partial/Failed"

\* C22: the two snapshots the dashboard reads were written by one and the same
\* run, the most recent run that wrote snapshots.
C22_DashboardReadsOnePair ==
  (cache # NoCache /\ cache # <<NoRun, NoRun>>) =>
    /\ cache[1] = cache[2]
    /\ \A f \in files : f.kind \in {"weather", "collisions"} => f.run <= cache[1]

\* C30 (the claim as stated): the summary of a run that used the fallback
\* extraction records, in its 'Date Range' entry, the range actually
\* extracted (2024-01-01 to 2024-01-07, 7 days).
C30_SummaryOfExtractedRange ==
  (FileOf("summary", run) /\ summary.start # NoDate /\ Len(attempts) = 2) =>
    /\ <<summary.start, summary.end>> = extracted
    /\ summary.days = DaysRange(extracted[1], extracted[2])

(***************************************************************************)
(* Properties of the weather cleaner (SpecWx)                              *)
(***************************************************************************)
WeatherCategories == {"CLEAR", "RAIN", "SNOW", "FOG", "WIND"}

\* the value of a column of the cleaned row, a missing column counting as its default
CleanValue(col, default) == IF wxClean[col].t = "absent" THEN default ELSE wxClean[col].v

\* C10: the category of every cleaned weather row is one of CLEAR, RAIN, SNOW,
\* FOG, WIND and follows the priority list: SNOW iff snowfall > 0; else RAIN iff
\* rain + showers + precipitation > 0; else FOG iff visibility < 5000; else
\* WIND iff wind speed > 30; else CLEAR.
C10_CategoryPriority ==
  wxpc = "clean" =>
    LET snow == CleanValue("snowfall", 0) > 0
        rain == CleanValue("rain", 0) + CleanValue("showers", 0)
                + CleanValue("precipitation", 0) > 0
        fog == CleanValue("visibility", 10000) < 5000
        wind == CleanValue("wind_speed_10m", 0) > 30 * Milli
        cat == wxClean.weather_category
    IN /\ cat \in WeatherCategories
       /\ (cat = "SNOW") <=> snow
       /\ (cat = "RAIN") <=> (~snow /\ rain)
       /\ (cat = "FOG") <=> (~snow /\ ~rain /\ fog)
       /\ (cat = "WIND") <=> (~snow /\ ~rain /\ ~fog /\ wind)
       /\ (cat = "CLEAR") <=> (~snow /\ ~rain /\ ~fog /\ ~wind)

\* snow together with rain, poor visibility and strong wind
C10_Witness ==
  /\ wxpc = "clean" /\ wxClean.weather_category = "SNOW"
  /\ wxClean.rain.v > 0 /\ CleanValue("visibility", 10000) < 5000
  /\ CleanValue("wind_speed_10m", 0) > 30 * Milli

WeatherSeverities == {"LIGHT", "MODERATE", "HEAVY", "SEVERE"}

\* C11: the severity of every cleaned weather row is given by the first rule
\* that matches, in the order: snowfall > 5 HEAVY; rain + showers +
\* precipitation > 10 HEAVY, > 5 MODERATE; visibility < 1000 SEVERE, < 3000
\* MODERATE; wind speed > 50 SEVERE, > 30 MODERATE; else LIGHT.
C11_SeverityFirstMatch ==
  wxpc = "clean" =>
    LET snowfall == CleanValue("snowfall", 0)
        rain_total == CleanValue("rain", 0) + CleanValue("showers", 0)
                      + CleanValue("precipitation", 0)
        visibility == CleanValue("visibility", 10000)
        wind == CleanValue("wind_speed_10m", 0)
        rules == <<[if |-> snowfall > 5, then |-> "HEAVY"],
                   [if |-> rain_total > 10, then |-> "HEAVY"],
                   [if |-> rain_total > 5, then |-> "MODERATE"],
                   [if |-> visibility < 1000, then |-> "SEVERE"],
                   [if |-> visibility < 3000, then |-> "MODERATE"],
                   [if |-> wind > 50 * Milli, then |-> "SEVERE"],
                   [if |-> wind > 30 * Milli, then |-> "MODERATE"],
                   [if |-> TRUE, then |-> "LIGHT"]>>
        first == CHOOSE i \in 1..Len(rules) :
                   rules[i].if /\ \A j \in 1..(i - 1) : ~rules[j].if
    IN /\ wxClean.weather_severity \in WeatherSeverities
       /\ wxClean.weather_severity = rules[first].then

\* strong wind (a later rule, SEVERE) together with a visibility between
\* 1000 and 3000 (an earlier rule, MODERATE), and neither snow nor rain
C11_Witness ==
  /\ wxpc = "clean" /\ wxClean.weather_severity = "MODERATE"
  /\ CleanValue("wind_speed_10m", 0) > 50 * Milli
  /\ CleanValue("visibility", 10000) < 3000 /\ CleanValue("visibility", 10000) >= 1000
  /\ CleanValue("snowfall", 0) <= 5
  /\ CleanValue("rain", 0) + CleanValue("showers", 0) + CleanValue("precipitation", 0) <= 5

(***************************************************************************)
(* Properties of the weather cleaner on a table (SpecWxT)                  *)
(***************************************************************************)
\* the positions of the table whose datetime is null
NullDatetimeRows(table) == {i \in 1..Len(table) : table[i].datetime.t \in {"nat", "null"}}
\* the positions of the raw table whose datetime cannot be parsed
UnparseableRows(table) == {i \in 1..Len(table) : table[i].datetime.t \in {"bad", "null"}}

\* C16 (the claim as stated): the cleaned weather table has as many rows with a
\* null datetime as the raw table has rows whose datetime cannot be parsed.
C16_UnparseableRowsKept ==
  wtpc \in {"clean", "again"} =>
    Cardinality(NullDatetimeRows(wtClean)) = Cardinality(UnparseableRows(wtRaw))

\* C18: transform applied to its own output returns the same table: the same
\* rows in the same order, with the same datetime, borough, measures,
\* category, severity and time features.
C18_TransformIdempotent ==
  wtpc = "again" => wtAgain = wtClean

\* the second run was given a table that the first run had changed: a
\* duplicate dropped, a string parsed and converted to New York time, a
\* borough normalised, a visibility bucketed
C18_Witness ==
  /\ wtpc = "again" /\ wtAgain = wtClean
  /\ Len(wtRaw) = 2 /\ Len(wtClean) = 1
  /\ wtClean[1].datetime.t = "ts" /\ wtClean[1].datetime.h # wtRaw[1].datetime.h
  /\ wtClean[1].borough # wtRaw[1].borough
  /\ wtClean[1].m.visibility # wtRaw[1].m.visibility
  /\ wtClean[1].is_night

\* the clean rows that come from the raw row i: same borough, same instant
CleanRowsOf(i) ==
  {j \in 1..Len(wtClean) :
     /\ wtClean[j].borough = BoroughCleanupWx(wtRaw[i].borough)
     /\ DatetimeKey(wtClean[j].datetime) =
          [t |-> "ts", instant |-> wtRaw[i].datetime.h - wtRaw[i].datetime.offset]}

\* C24: a raw row with a UTC timestamp in NYC standard time has a clean row
\* whose hour_nyc is (UTC hour - 5) mod 24, with is_night and is_rush_hour
\* derived from that hour; 2024-01-01T05:00Z with no rain or snow, visibility
\* 31000 and wind 7.4 gives hour_nyc 0, is_night, CLEAR, LIGHT.
C24_LocalHourFeatures ==
  wtpc # "raw" =>
    \A i \in 1..Len(wtRaw) :
      wtRaw[i].datetime.t = "str" =>
        /\ CleanRowsOf(i) # {}
        /\ \A j \in CleanRowsOf(i) :
             LET utc == wtRaw[i].datetime.h - wtRaw[i].datetime.offset
                 hour == (utc - 5) % 24
                 c == wtClean[j]
             IN /\ c.hour_nyc = hour
                /\ c.is_night = (hour >= 20 \/ hour < 6)
                /\ c.is_rush_hour = (hour \in {7, 8, 9, 16, 17, 18, 19})
                /\ (utc = 5 /\ wtRaw[i].m = CalmMeasures /\ Len(wtRaw) = 1) =>
                     /\ c.hour_nyc = 0 /\ c.is_night
                     /\ c.m.weather_category = "CLEAR"
                     /\ c.m.weather_severity = "LIGHT"

C24_Witness ==
  /\ wtpc = "clean" /\ Len(wtRaw) = 1 /\ Len(wtClean) = 1
  /\ wtRaw[1].datetime = Str(5) /\ wtRaw[1].m = CalmMeasures
  /\ wtClean[1].hour_nyc = 0 /\ wtClean[1].is_night
  /\ wtClean[1].m.weather_category = "CLEAR"
  /\ wtClean[1].m.weather_severity = "LIGHT"

(***************************************************************************)
(* Properties of the collisions cleaner (SpecCol)                          *)
(***************************************************************************)
CleanCollisionRows == {colClean[i] : i \in 1..Len(colClean)}

\* C12: in every cleaned collision row total_involved is the sum of the 8
\* counts, and severity_level is FATAL iff persons_killed > 0; else SEVERE iff
\* persons_injured >= 3; else MODERATE iff persons_injured > 0; else MINOR iff
\* total_involved > 0; else NONE.
C12_SeverityLevel ==
  \A r \in CleanCollisionRows :
    LET fatal == r.persons_killed > 0
        severe == r.persons_injured >= 3
        moderate == r.persons_injured > 0
        minor == r.total_involved > 0
        level == r.severity_level
    IN /\ r.total_involved =
            r.persons_injured + r.persons_killed + r.pedestrians_injured
            + r.pedestrians_killed + r.cyclists_injured + r.cyclists_killed
            + r.motorists_injured + r.motorists_killed
       /\ level \in {"FATAL", "SEVERE", "MODERATE", "MINOR", "NONE"}
       /\ (level = "FATAL") <=> fatal
       /\ (level = "SEVERE") <=> (~fatal /\ severe)
       /\ (level = "MODERATE") <=> (~fatal /\ ~severe /\ moderate)
       /\ (level = "MINOR") <=> (~fatal /\ ~severe /\ ~moderate /\ minor)
       /\ (level = "NONE") <=> (~fatal /\ ~severe /\ ~moderate /\ ~minor)

\* a row without persons injured or killed but with a pedestrian injured is MINOR
C12_Witness ==
  /\ colpc = "clean"
  /\ \E r \in CleanCollisionRows :
       /\ r.severity_level = "MINOR"
       /\ r.persons_injured = 0 /\ r.persons_killed = 0 /\ r.pedestrians_injured = 1

\* C13: every row of the cleaned collisions table has a collision_id and a
\* crash_datetime that are not null, and no two rows have the same collision_id.
C13_IdAndDatetimePresent ==
  /\ \A i \in 1..Len(colClean) :
       colClean[i].collision_id # Null /\ colClean[i].crash_datetime.t = "ts"
  /\ \A i \in 1..Len(colClean) : \A j \in 1..Len(colClean) :
       colClean[i].collision_id = colClean[j].collision_id => i = j

\* of two raw rows with the same collision_id, both with a valid borough and
\* a date, the cleaned table keeps one
C13_Witness ==
  /\ colpc = "clean" /\ Len(colRaw) = 2 /\ Len(colClean) = 1
  /\ colRaw[1].collision_id = colRaw[2].collision_id /\ colRaw[1].collision_id # Null
  /\ \A i \in 1..2 : colRaw[i].borough \in {Null, "bronx"} /\ colRaw[i].crash_date.t = "str"

\* C14 (the claim as stated): a raw row with a collision_id, crash_date
\* '2024-01-01T00:00:00.000', crash_time '7:00' and the empty string as its
\* borough is in the cleaned table, with borough UNKNOWN and crash_datetime
\* 2024-01-01 07:00.
C14_BlankBoroughRetained ==
  (/\ colpc = "clean" /\ Len(colRaw) = 1
   /\ colRaw[1].borough = "" /\ colRaw[1].collision_id # Null
   /\ colRaw[1].crash_date = DateStr(0) /\ colRaw[1].crash_time = "7:00")
    => /\ Len(colClean) = 1
       /\ colClean[1].borough = "UNKNOWN"
       /\ colClean[1].crash_datetime = Ts(7, 0)

\* C15 (the claim as stated): in every cleaned collision row each of the 8
\* counts is at least 0, and so is total_involved.
C15_CountsNonNegative ==
  \A r \in CleanCollisionRows :
    /\ \A col \in InjuryCols : r[col] >= 0
    /\ r.total_involved >= 0

(***************************************************************************)
(* Properties of the loader (SpecLoad)                                     *)
(***************************************************************************)
\* the natural key of the row that loader l is processing or has just processed
RowKey(l) ==
  IF l.kind = "weather" THEN WeatherKey(l.dt_nyc, NormalizeBorough(l.borough))
  ELSE CollisionKey(l.collision_id)
Facts(kind) == IF kind = "weather" THEN fact_weather ELSE fact_collisions
\* C1 (the claim as stated): all the resolutions of one timestamp (one
\* borough), by any loader and in any order with resolutions of other values,
\* return the same id, and no dimension table holds two rows for one value or
\* one id for two values.
C1_ResolutionIdempotent ==
  /\ \A e1 \in resolved : \A e2 \in resolved :
       (e1[1] = e2[1] /\ e1[2] = e2[2]) => e1[3] = e2[3]
  /\ \A r1 \in dim_datetime : \A r2 \in dim_datetime :
       (r1.col.datetime_nyc = r2.col.datetime_nyc \/ r1.col.id = r2.col.id) => r1 = r2
  /\ \A r1 \in dim_location : \A r2 \in dim_location :
       (r1.col.borough = r2.col.borough \/ r1.col.id = r2.col.id) => r1 = r2

\* C2 (the claim as stated): whenever the INSERT of a resolution has been
\* rejected with errno 1062, the lookup that follows returns the id of the
\* row that exists, so that the row being processed goes on with that id.
C2_RaceRequeryReturnsId ==
  [][\A s \in Sess :
       /\ (ld[s].pc = "dt_requery" /\ ld'[s] # ld[s])
            => \E r \in dim_datetime :
                 /\ r.col.datetime_nyc = ld[s].dt_nyc
                 /\ ld'[s].datetime_id = r.col.id
       /\ (ld[s].pc = "loc_requery" /\ ld'[s] # ld[s])
            => \E r \in dim_location :
                 /\ r.col.borough = NormalizeBorough(ld[s].borough)
                 /\ ld'[s].location_id = r.col.id
    ]_vars

\* the facts with the natural key of the row of l that were committed before
\* the load call of l began
CommittedBefore(l) ==
  {r \in Facts(l.kind) : r.col.key = RowKey(l) /\ r.txn = 0 /\ r.at < l.callno}

\* C3: when a load call takes a row whose natural key belongs to a fact that
\* was committed before the call began, the row is not skipped, its two
\* resolutions find the dimension rows without an INSERT, and the look-up of
\* the fact counts it as one duplicate and not as loaded; the store keeps
\* exactly one fact for that key.
C3_SecondLoadIsDuplicate ==
  /\ [][\A s \in Sess :
          (ld[s].pc = "row" /\ ld'[s].n = ld[s].n + 1 /\ CommittedBefore(ld'[s]) # {})
            => /\ ld'[s].pc = "loc_select"
               /\ ld'[s].total_skipped = ld[s].total_skipped
      ]_vars
  /\ [][\A s \in Sess :
          (ld[s].pc = "loc_select" /\ ld'[s] # ld[s] /\ CommittedBefore(ld[s]) # {})
            => ld'[s].pc = "fact_select"
      ]_vars
  /\ [][\A s \in Sess :
          (ld[s].pc = "fact_select" /\ ld'[s] # ld[s] /\ CommittedBefore(ld[s]) # {})
            => /\ ld'[s].duplicates = ld[s].duplicates + 1
               /\ ld'[s].total_loaded = ld[s].total_loaded
               /\ ld'[s].total_skipped = ld[s].total_skipped
               /\ ld'[s].pc = "row"
               /\ fact_weather' = fact_weather /\ fact_collisions' = fact_collisions
               /\ Cardinality({r \in Facts(ld[s].kind) : r.col.key = RowKey(ld[s])}) = 1
      ]_vars

\* the second load call has counted as a duplicate, and has loaded nothing, a
\* row whose fact the first call committed
C3_Witness ==
  \E s \in Sess :
    /\ ld[s].callno = 2 /\ ld[s].pc = "row" /\ ld[s].n = 1
    /\ ld[s].duplicates = 1 /\ ld[s].total_loaded = 0
    /\ \E r \in Facts(ld[s].kind) :
         r.col.key = RowKey(ld[s]) /\ r.call = 1 /\ r.txn = 0 /\ r.at = 1
    /\ Cardinality({r \in Facts(ld[s].kind) : r.col.key = RowKey(ld[s])}) = 1

\* fact_weather holds at most one row per (datetime_id, location_id) and
\* fact_collisions at most one row per collision_id
UniqueFacts ==
  /\ \A r1 \in fact_weather : \A r2 \in fact_weather :
       (r1.col.datetime_id = r2.col.datetime_id /\ r1.col.location_id = r2.col.location_id)
         => r1 = r2
  /\ \A r1 \in fact_collisions : \A r2 \in fact_collisions :
       r1.col.collision_id = r2.col.collision_id => r1 = r2

\* loader s takes a step from its INSERT of a fact whose unique key is held
\* by the row of another call (its pre-check had found nothing): the INSERT
\* loses
LosesFactInsert(s) ==
  /\ ld[s].pc = "fact_insert"
  /\ ld'[s] # ld[s]
  /\ SameFact(ld[s], FactTable(ld[s])) # {}

\* C4 (the claim as stated): in every state, whatever the interleaving of the
\* load calls, each fact table holds at most one row per unique key; and the
\* INSERT of a fact that loses to the INSERT of the same key by another call
\* is counted as a duplicate: it is not counted as skipped and the call goes
\* on with the next row.
C4_AtMostOneFactPerKey ==
  /\ []UniqueFacts
  /\ [][\A s \in Sess :
          LosesFactInsert(s)
            => /\ ld'[s].duplicates = ld[s].duplicates + 1
               /\ ld'[s].total_skipped = ld[s].total_skipped
               /\ ld'[s].total_loaded = ld[s].total_loaded
               /\ ld'[s].pc = "row"
               /\ fact_weather' = fact_weather /\ fact_collisions' = fact_collisions
      ]_vars

\* C5 (the claim as stated): when a load call has returned False, the store
\* holds no fact that the call inserted.
C5_FailedCallLeavesNoFact ==
  \A s \in Sess :
    (ld[s].pc = "idle" /\ ld[s].callno # 0 /\ ld[s].ret = "False")
      => \A r \in fact_weather \cup fact_collisions : r.call # ld[s].callno

\* C17 (the claim as stated): every row of fact_collisions has the
\* collision_id of the record it was created from: no fact is created from a
\* record without collision_id.
C17_NoFactWithoutCollisionId ==
  \A r \in fact_collisions :
    r.col.collision_id \in {row.collision_id : row \in CollisionRowInputs} \ {NoCollisionId}

\* C19 (the claim as stated): a loader that is not in a load call holds no
\* open connection.
C19_ConnectionClosedOnReturn ==
  \A s \in Sess : ld[s].pc = "idle" => ~ld[s].conn

\* C20 (the claim as stated): the borough of every row of dim_location is one
\* of the 5 boroughs or UNKNOWN.
C20_CanonicalBoroughs ==
  \A r \in dim_location :
    r.col.borough \in {"MANHATTAN", "BROOKLYN", "QUEENS", "BRONX", "STATEN ISLAND", "UNKNOWN"}

\* C25: the severity_level stored with a collision fact is the severity_level
\* that the cleaner derived for the record the fact was loaded from.
C25_StoredSeverityIsCleaned ==
  \A f \in fact_collisions : \A row \in CollisionRowInputs :
    row.collision_id = f.col.collision_id => f.col.severity_level = row.severity_level

\* the facts that the load call of loader l has inserted and that are in the store
FactsOfCall(l) == {f \in FactTable(l) : f.call = l.callno}

\* C26: when a load call reaches its final commit every input row has been
\* counted in exactly one counter (loaded + skipped + duplicate = rows), and
\* loaded is the number of facts the call inserted.
C26_CountersPartitionRows ==
  \A s \in Sess :
    ld[s].pc = "final_commit" =>
      /\ ld[s].total_loaded + ld[s].total_skipped + ld[s].duplicates = ld[s].n
      /\ ld[s].total_loaded = Cardinality(FactsOfCall(ld[s]))

\* C23: a skipped row (null or unparseable timestamp, or a non-duplicate error)
\* is counted as skipped and the loop goes on with every other row inserted:
\* between two rows and at the final commit, the rows of the call that were
\* counted neither as skipped nor as duplicates are facts in the store.
C23_SkipLeavesOtherRows ==
  \A s \in Sess :
    ld[s].pc \in {"row", "final_commit"} =>
      Cardinality(FactsOfCall(ld[s])) >= ld[s].n - ld[s].total_skipped - ld[s].duplicates

\* C27: the is_night of a dim_datetime row is the is_night that the weather
\* cleaner derives for the same local timestamp.
C27_NightFlagsAgree ==
  \A r \in dim_datetime :
    r.col.is_night = IsNightWx(Ts(r.col.datetime_nyc, NYOffset))

\* the UTC hours from which the cleaner derives the local timestamps explored
UtcHours == 0..60

\* C28: the datetime_utc of a dim_datetime row is the UTC timestamp from
\* which the weather cleaner derives the row's local timestamp.
C28_UtcIsOriginal ==
  \A r \in dim_datetime : \A u \in UtcHours :
    TzConvertNY(ToDatetimeUtc(Str(u))).h = r.col.datetime_nyc => r.col.datetime_utc = u

\* C29: is_adverse_weather of a weather fact is 1 exactly when precipitation
\* is above 5 or the visibility is not null and below 1000, from 0 upward.
C29_AdverseWeatherFlag ==
  \A f \in fact_weather :
    f.col.is_adverse_weather = 1 <=>
      \/ f.col.precipitation > 5
      \/ (f.col.visibility # NoVisibility /\ f.col.visibility < 1000)

====
